---- MODULE Spec2Model ----
(***************************************************************************)
(* Model of the Invoice-Manager backend services:                          *)
(*   - the conversation memory store, the model-availability flag and the  *)
(*     intent classifier of services/langchainService.js;                  *)
(*   - the chat pipeline (processMessage and its handlers) of the AI       *)
(*     service, with the regex extractor and the in-memory accounting      *)
(*     backend it calls.                                                   *)
(* Each subsystem has its own specification over the shared variables.     *)
(***************************************************************************)
EXTENDS Integers, Sequences, FiniteSets, TLC

VARIABLES
    conversationMemory,     \* langchainService.js: Map key -> array of entries
    now,                    \* the wall clock read by `new Date()`
    appended,               \* history: entries pushed onto the tracked key so far
    callLog,                \* history: the store calls made so far, in order
    modelConnectionWorking, \* langchainService.js: "null", "true" or "false"
    startup,                \* position of the connection test started at load
    processAlive,           \* FALSE once the process has been terminated
    req,                    \* the calls of detectIntent / generateConversationalResponse
    invoices,               \* accounting backend: the stored invoices
    transactions,           \* accounting backend: the stored transactions
    invoiceCounter,         \* accounting backend: the next invoice id
    transactionCounter,     \* accounting backend: the next transaction id
    chat,                   \* the calls of processMessage
    typed,                  \* a message being written, character by character
    extracted               \* what the amount pattern extracted from it

memVars == <<conversationMemory, now, appended, callLog>>

intentVars == <<modelConnectionWorking, startup, processAlive, req>>

backendVars == <<invoices, transactions, invoiceCounter, transactionCounter>>

chatVars == <<backendVars, chat>>

extractVars == <<typed, extracted>>

vars == <<memVars, intentVars, chatVars, extractVars>>

-----------------------------------------------------------------------------
(* Bounds of the model.                                                    *)

MaxClock == 1       \* the clock takes the values 0..MaxClock
MaxAppends == 22    \* appends made in SpecAppend (more than MemoryCap)
MaxCalls == 4       \* store calls made in SpecMem (the length of callLog)
MaxInvoices == 2    \* processMessage is not called once this many invoices exist
MaxTransactions == 2 \* nor once this many transactions exist
MaxRecords == 3     \* nor once this many invoices and transactions exist
MaxHistory == 7     \* entries of the history written in SpecContext
MaxKeyCalls == 3    \* store calls in SpecKeys
MaxParts == 5       \* parts of a reply written in SpecJson
MaxText == 5        \* characters of a message written in SpecExtract

(* Program constants.                                                      *)

MemoryCap == 20     \* "Keep only last 20 items"

-----------------------------------------------------------------------------
(* JavaScript values: the values a JSON reply can parse to.                *)

Undefined == [t |-> "undefined"]
Null == [t |-> "null"]
NaN == [t |-> "nan"]
\* A string is the sequence of its fragments (single characters where the
\* code looks at characters, whole words elsewhere); "" is Str(<<>>).
Str(s) == [t |-> "str", s |-> s]
\* A number, in hundredths: Num(50000) is 500 and Num(95) is 0.95.
Num(n) == [t |-> "num", n |-> n]
\* A counter value (an id), written in units.
Whole(i) == [t |-> "int", i |-> i]
Obj(o) == [t |-> "obj", o |-> o]

\* !value
Falsy(v) ==
    \/ v.t \in {"undefined", "null", "nan"}
    \/ v.t = "str" /\ v.s = <<>>
    \/ v.t = "num" /\ v.n = 0
    \/ v.t = "int" /\ v.i = 0

\* value.field throws a TypeError on null and undefined
PropertyThrows(v) == v.t \in {"undefined", "null"}

\* value.field
Prop(v, field) ==
    IF v.t = "obj" /\ field \in DOMAIN v.o THEN v.o[field] ELSE Undefined

-----------------------------------------------------------------------------
(* JavaScript helpers.                                                     *)

NullData == "null"

Min(S) == CHOOSE x \in S : \A y \in S : x <= y

\* Map.prototype.get(key) || []
MapGet(map, key) == IF key \in DOMAIN map THEN map[key] ELSE <<>>

\* Map.prototype.set(key, value)
MapSet(map, key, value) ==
    [k \in (DOMAIN map) \cup {key} |-> IF k = key THEN value ELSE map[k]]

\* Map.prototype.delete(key)
MapDelete(map, key) == [k \in (DOMAIN map) \ {key} |-> map[k]]

\* Array.prototype.splice(0, n): drops the first n elements in place
SpliceFront(arr, n) == SubSeq(arr, n + 1, Len(arr))

IsPending(item) == item.type = "pending_extracted_data"

NotPending(item) == item.type # "pending_extracted_data"

-----------------------------------------------------------------------------
(* Conversation memory store (langchainService.js).                        *)

\* const key = `${userId}-${conversationId}`
MemKey(userId, conversationId) == userId \o "-" \o conversationId

ConversationItem(userMessage, botResponse, ts) ==
    [type |-> "conversation", userMessage |-> userMessage,
     botResponse |-> botResponse, timestamp |-> ts]

IntentItem(message, intent, ts) ==
    [type |-> "intent_detection", message |-> message,
     intent |-> intent, timestamp |-> ts]

PendingItem(data, ts) ==
    [type |-> "pending_extracted_data", data |-> data, timestamp |-> ts]

\* Mutant of TrimToCap: evicts the newest entries instead of the oldest.
TrimToCapNewest(memory) ==
    IF Len(memory) > MemoryCap
    THEN SubSeq(memory, 1, MemoryCap)
    ELSE memory

\* if (memory.length > 20) memory.splice(0, memory.length - 20)
TrimToCap(memory) ==
    IF Len(memory) > MemoryCap
    THEN SpliceFront(memory, Len(memory) - MemoryCap)
    ELSE memory

\* Mutant of addToConversationMemory: pushes the item twice.
addToConversationMemoryTwice(map, userId, conversationId, item) ==
    MapSet(map, MemKey(userId, conversationId),
           TrimToCap(Append(Append(MapGet(map, MemKey(userId, conversationId)), item), item)))

addToConversationMemory(map, userId, conversationId, item) ==
    LET key == MemKey(userId, conversationId)
        memory == MapGet(map, key)
        pushed == Append(memory, item)
    IN  MapSet(map, key, TrimToCap(pushed))

ContextWindow == 5

\* The text one entry contributes to the context ('' for other types).
ContextLine(item) ==
    IF item.type = "conversation"
    THEN <<"User: ", item.userMessage, "\nBot: ", item.botResponse>>
    ELSE IF item.type = "intent_detection"
    THEN <<"User intent: ", item.intent, " for message: \"", item.message, "\"">>
    ELSE <<>>

ContextLines(memory) == [i \in 1..Len(memory) |-> ContextLine(memory[i])]

\* memory.slice(-5).map(...).join('\n\n'), kept as the list that is joined
\* Mutant of ContextSlice: memory.slice(0, 5), the oldest entries.
ContextSliceOldest(memory) ==
    IF Len(memory) > ContextWindow THEN SubSeq(memory, 1, ContextWindow) ELSE memory

\* memory.slice(-5)
ContextSlice(memory) ==
    IF Len(memory) > ContextWindow
    THEN SubSeq(memory, Len(memory) - ContextWindow + 1, Len(memory))
    ELSE memory

\* memory.slice(-5).map(...).join('\n\n'), kept as the list that is joined
getConversationContext(map, userId, conversationId) ==
    ContextLines(ContextSlice(MapGet(map, MemKey(userId, conversationId))))

clearConversationMemory(map, userId, conversationId) ==
    MapDelete(map, MemKey(userId, conversationId))

\* Mutant of WithoutPending: keeps the previous pending record.
WithoutPendingKeepAll(memory) == memory

\* memory.filter(item => item.type !== 'pending_extracted_data')
WithoutPending(memory) == SelectSeq(memory, NotPending)

setPendingExtractedData(map, userId, conversationId, data, ts) ==
    LET key == MemKey(userId, conversationId)
        memory == MapGet(map, key)
        filtered == WithoutPending(memory)
    IN  MapSet(map, key, Append(filtered, PendingItem(data, ts)))

getPendingExtractedData(map, userId, conversationId) ==
    LET memory == MapGet(map, MemKey(userId, conversationId))
        found == {i \in 1..Len(memory) : IsPending(memory[i])}
    IN  IF found = {} THEN NullData ELSE memory[Min(found)].data

clearPendingExtractedData(map, userId, conversationId) ==
    LET key == MemKey(userId, conversationId)
        memory == MapGet(map, key)
    IN  MapSet(map, key, WithoutPending(memory))

-----------------------------------------------------------------------------
(* Observations used by the properties.                                    *)

StoredKeys == DOMAIN conversationMemory

PendingCount(memory) == Len(SelectSeq(memory, IsPending))

LastN(s, n) == IF Len(s) > n THEN SubSeq(s, Len(s) - n + 1, Len(s)) ELSE s

-----------------------------------------------------------------------------
(* Inputs of the store operations.                                         *)

Users == {"u1", "u2"}
Convs == {"default"}
Messages == {"hello"}
PendingData == {"d1", "d2"}

CapUser == "u1"
CapConv == "default"
CapKey == MemKey(CapUser, CapConv)

\* The entries the two callers of addToConversationMemory push.
Items(ts) ==
    {IntentItem(m, Str(<<"GENERAL_INQUIRY">>), ts) : m \in Messages}
    \cup {ConversationItem(m, <<"hi">>, ts) : m \in Messages}

-----------------------------------------------------------------------------
(* Actions of the store.                                                   *)

Tick ==
    /\ now < MaxClock
    /\ now' = now + 1
    /\ UNCHANGED <<conversationMemory, appended, callLog>>

AddToConversationMemory(userId, conversationId, item) ==
    /\ conversationMemory' =
           addToConversationMemory(conversationMemory, userId, conversationId, item)
    /\ UNCHANGED <<now, appended>>

SetPendingExtractedData(userId, conversationId, data) ==
    /\ conversationMemory' =
           setPendingExtractedData(conversationMemory, userId, conversationId, data, now)
    /\ UNCHANGED <<now, appended>>

ClearPendingExtractedData(userId, conversationId) ==
    /\ conversationMemory' =
           clearPendingExtractedData(conversationMemory, userId, conversationId)
    /\ UNCHANGED <<now, appended>>

ClearConversationMemory(userId, conversationId) ==
    /\ conversationMemory' =
           clearConversationMemory(conversationMemory, userId, conversationId)
    /\ UNCHANGED <<now, appended>>

InitStore ==
    /\ conversationMemory = <<>>
    /\ now = 0
    /\ appended = <<>>
    /\ callLog = <<>>

Call(op, userId, conversationId, arg) ==
    [op |-> op, userId |-> userId, conversationId |-> conversationId, arg |-> arg]

Logged(call) == callLog' = Append(callLog, call)

-----------------------------------------------------------------------------
(* Errors and promise outcomes.                                            *)

\* An Error; `mentions` is the set of marker texts its message contains.
Error(name, mentions) == [name |-> name, mentions |-> mentions]

Ok(value) == [kind |-> "ok", value |-> value]
Throw(error) == [kind |-> "throw", error |-> error]

NoResult == [kind |-> "none"]
Resolved(value) == [kind |-> "resolved", value |-> value]
Rejected(error) == [kind |-> "rejected", error |-> error]

\* error.message.includes(text)
MessageIncludes(error, text) == text \in error.mentions

-----------------------------------------------------------------------------
(* Intent classifier (langchainService.js).                                *)

ApiMarkers == {"GoogleGenerativeAI Error", "404 Not Found"}

\* A model reply: an optional markdown fence, optional prose before and
\* after, the JSON text in between (`body` is what JSON.parse makes of that
\* text alone, or Invalid), and the marker texts the reply contains.
Invalid == [t |-> "invalid"]

Reply(fence, before, after, body, mentions) ==
    [fence |-> fence, before |-> before, after |-> after,
     body |-> body, mentions |-> mentions]

\* JSON.parse of the cleaned text succeeds when the fence was removed (the
\* text starts with it and ends with it) and nothing but the JSON is left.
WholeTextIsJson(response) ==
    /\ ~response.before
    /\ ~response.after
    /\ response.body # Invalid

\* The message of the SyntaxError of JSON.parse quotes the input or not,
\* depending on the engine: both outcomes are possible. An engine that
\* quotes shows the whole text only when it is short, and otherwise ten
\* characters on either side of the offending one: "404 Not Found" fits in
\* what is quoted, the longer "GoogleGenerativeAI Error" never does.
QuotableMarkers == {"404 Not Found"}

ParseErrors(response) ==
    {Error("Error", {}), Error("Error", response.mentions \cap QuotableMarkers)}

\* Mutant of parseGeminiResponse: recovers the JSON object from the prose.
parseGeminiResponseLenient(response) ==
    IF response.body # Invalid
    THEN {Ok(response.body)}
    ELSE {Throw(e) : e \in ParseErrors(response)}

\* The outcomes of parseGeminiResponse(response).
parseGeminiResponse(response) ==
    IF WholeTextIsJson(response)
    THEN {Ok(response.body)}
    ELSE {Throw(e) : e \in ParseErrors(response)}

\* detectIntentFallback and generateFallbackResponse are called but are
\* declared nowhere in the module: evaluating the call throws.
ReferenceError == Error("ReferenceError", {})

detectIntentFallback(message) == Throw(ReferenceError)

generateFallbackResponse(message) == Throw(ReferenceError)

\* return <call>: the async function resolves or rejects with the outcome.
Settle(outcome) ==
    IF outcome.kind = "ok" THEN Resolved(outcome.value) ELSE Rejected(outcome.error)

\* if (!parsed.intent || !parsed.confidence || !parsed.entities) throw ...
ValidateStructure(parsed) ==
    IF PropertyThrows(parsed)
    THEN Throw(Error("TypeError", {}))
    ELSE IF \/ Falsy(Prop(parsed, "intent"))
            \/ Falsy(Prop(parsed, "confidence"))
            \/ Falsy(Prop(parsed, "entities"))
         THEN Throw(Error("Error", {}))
         ELSE Ok(parsed)

\* Mutant of MarksUnavailable: any error marks the model unavailable.
MarksUnavailableAlways(error) == TRUE

\* error.message.includes('GoogleGenerativeAI Error') ||
\* error.message.includes('404 Not Found')
MarksUnavailable(error) ==
    \/ MessageIncludes(error, "GoogleGenerativeAI Error")
    \/ MessageIncludes(error, "404 Not Found")

\* function isModelAvailable()
isModelAvailable == modelConnectionWorking # "false"

(* The calls in flight.                                                    *)

Requests == {"r1", "r2"}

IntentMessages == {"Create an invoice for Jane for $500"}

IdleCall == [fn |-> "none", pc |-> "idle"]

NewCall(fn, message, userId, conversationId, pc, invoked, result) ==
    [fn |-> fn, pc |-> pc, message |-> message, userId |-> userId,
     conversationId |-> conversationId,
     startupAtCall |-> startup, flagAtCall |-> modelConnectionWorking,
     invokedModel |-> invoked, modelOutcome |-> "none", result |-> result]

\* The catch block of detectIntent and of generateConversationalResponse:
\* the flag after it, and the outcome of the function.
FlagAfterCatch(error) ==
    IF MarksUnavailable(error) THEN "false" ELSE modelConnectionWorking

CatchIntent(error, message) == Settle(detectIntentFallback(message))

CatchConversation(error, message) == Settle(generateFallbackResponse(message))

(* Startup: testModelConnection().then(status => ...).                     *)

\* model.invoke resolved: testModelConnection returns true and the
\* then-callback stores it: modelConnectionWorking = status.
StartupSucceeds ==
    /\ processAlive
    /\ startup = "invoking"
    /\ startup' = "resolved"
    /\ modelConnectionWorking' = "true"
    /\ UNCHANGED <<processAlive, req, memVars>>

\* model.invoke failed: testModelConnection throws, the promise is rejected
\* and has no rejection handler; the runtime warns or ends the process.
StartupFails ==
    /\ processAlive
    /\ startup = "invoking"
    /\ startup' = "rejected"
    /\ processAlive' \in BOOLEAN
    /\ UNCHANGED <<modelConnectionWorking, req, memVars>>

(* detectIntent.                                                           *)

\* The call up to its first await.
CallDetectIntent(r, message, userId, conversationId) ==
    /\ processAlive
    /\ req[r].pc = "idle"
    /\ IF modelConnectionWorking = "false"
       THEN \* return detectIntentFallback(message) throws inside the try
            LET thrown == detectIntentFallback(message).error
            IN  /\ req' = [req EXCEPT ![r] =
                        NewCall("detectIntent", message, userId, conversationId,
                                "done", FALSE, CatchIntent(thrown, message))]
                /\ modelConnectionWorking' = FlagAfterCatch(thrown)
       ELSE /\ req' = [req EXCEPT ![r] =
                        NewCall("detectIntent", message, userId, conversationId,
                                "awaitModel", TRUE, NoResult)]
            /\ UNCHANGED modelConnectionWorking
    /\ UNCHANGED <<startup, processAlive, memVars>>

\* intentChain.invoke resolved with `response`.
IntentModelReplies(r, response) ==
    /\ processAlive
    /\ req[r].fn = "detectIntent"
    /\ req[r].pc = "awaitModel"
    /\ \E parsedOutcome \in parseGeminiResponse(response) :
          LET checked == IF parsedOutcome.kind = "ok"
                         THEN ValidateStructure(parsedOutcome.value)
                         ELSE parsedOutcome
          IN  IF checked.kind = "ok"
              THEN /\ conversationMemory' =
                          addToConversationMemory(conversationMemory,
                              req[r].userId, req[r].conversationId,
                              IntentItem(req[r].message,
                                         Prop(checked.value, "intent"), now))
                   /\ req' = [req EXCEPT ![r].pc = "done",
                                         ![r].modelOutcome = "replied",
                                         ![r].result = Resolved(checked.value)]
                   /\ UNCHANGED modelConnectionWorking
              ELSE /\ modelConnectionWorking' = FlagAfterCatch(checked.error)
                   /\ req' = [req EXCEPT ![r].pc = "done",
                                 ![r].modelOutcome = "replied",
                                 ![r].result = CatchIntent(checked.error, req[r].message)]
                   /\ UNCHANGED conversationMemory
    /\ UNCHANGED <<now, appended, callLog, startup, processAlive>>

\* intentChain.invoke rejected with `error`.
IntentModelFails(r, error) ==
    /\ processAlive
    /\ req[r].fn = "detectIntent"
    /\ req[r].pc = "awaitModel"
    /\ modelConnectionWorking' = FlagAfterCatch(error)
    /\ req' = [req EXCEPT ![r].pc = "done",
                          ![r].modelOutcome = "failed",
                          ![r].result = CatchIntent(error, req[r].message)]
    /\ UNCHANGED <<startup, processAlive, memVars>>

(* generateConversationalResponse.                                         *)

CallConversation(r, message, userId, conversationId) ==
    /\ processAlive
    /\ req[r].pc = "idle"
    /\ IF modelConnectionWorking = "false"
       THEN LET thrown == generateFallbackResponse(message).error
            IN  /\ req' = [req EXCEPT ![r] =
                        NewCall("generateConversationalResponse", message, userId,
                                conversationId, "done", FALSE,
                                CatchConversation(thrown, message))]
                /\ modelConnectionWorking' = FlagAfterCatch(thrown)
       ELSE /\ req' = [req EXCEPT ![r] =
                        NewCall("generateConversationalResponse", message, userId,
                                conversationId, "awaitModel", TRUE, NoResult)]
            /\ UNCHANGED modelConnectionWorking
    /\ UNCHANGED <<startup, processAlive, memVars>>

\* conversationChain.invoke resolved with the text `response`.
ConversationModelReplies(r, response) ==
    /\ processAlive
    /\ req[r].fn = "generateConversationalResponse"
    /\ req[r].pc = "awaitModel"
    /\ conversationMemory' =
           addToConversationMemory(conversationMemory, req[r].userId,
               req[r].conversationId,
               ConversationItem(req[r].message, response, now))
    /\ req' = [req EXCEPT ![r].pc = "done", ![r].modelOutcome = "replied",
                          ![r].result = Resolved(Str(response))]
    /\ UNCHANGED <<now, appended, callLog, modelConnectionWorking, startup, processAlive>>

\* conversationChain.invoke rejected with `error`.
ConversationModelFails(r, error) ==
    /\ processAlive
    /\ req[r].fn = "generateConversationalResponse"
    /\ req[r].pc = "awaitModel"
    /\ modelConnectionWorking' = FlagAfterCatch(error)
    /\ req' = [req EXCEPT ![r].pc = "done",
                          ![r].modelOutcome = "failed",
                          ![r].result = CatchConversation(error, req[r].message)]
    /\ UNCHANGED <<startup, processAlive, memVars>>

(* Inputs: the replies and the errors of the model endpoint.               *)

Entities == Obj("client" :> Str(<<"Jane">>) @@ "amount" :> Str(<<"5", "0", "0">>))

IntentObject(intent, confidence, entities) ==
    Obj("intent" :> intent @@ "confidence" :> confidence @@ "entities" :> entities)

\* Confidence is written in hundredths: Num(95) is 0.95.
ReplyBodies ==
    { IntentObject(Str(<<"CREATE_INVOICE">>), Num(95), Entities),
      IntentObject(Str(<<"GENERAL_INQUIRY">>), Num(0), Obj(<<>>)),
      Obj("intent" :> Str(<<"CREATE_INVOICE">>) @@ "confidence" :> Num(95)),
      IntentObject(Str(<<"DELETE_ALL">>), Num(95), Entities),
      IntentObject(Str(<<"CREATE_INVOICE">>), Num(150), Entities),
      Null,
      Invalid }

IntentReplies ==
    {Reply("none", FALSE, FALSE, b, {}) : b \in ReplyBodies}
    \cup { Reply("json", FALSE, FALSE, IntentObject(Str(<<"CREATE_INVOICE">>), Num(95), Entities), {}),
           Reply("none", TRUE, TRUE, IntentObject(Str(<<"CREATE_INVOICE">>), Num(95), Entities), {}),
           Reply("none", TRUE, FALSE, Invalid, {"404 Not Found"}),
           Reply("none", TRUE, FALSE, Invalid, {"GoogleGenerativeAI Error"}) }

ConversationReplies == {<<"Happy to help!">>}

ModelErrors ==
    { Error("Error", {}),
      Error("Error", {"GoogleGenerativeAI Error"}),
      Error("Error", {"GoogleGenerativeAI Error", "404 Not Found"}) }

InitIntent ==
    /\ modelConnectionWorking = "null"
    /\ startup = "invoking"
    /\ processAlive = TRUE
    /\ req = [r \in Requests |-> IdleCall]

-----------------------------------------------------------------------------
(* Text and number conversions of JavaScript.                              *)

Digits == {"0", "1", "2", "3", "4", "5", "6", "7", "8", "9"}

DigitVal ==
    "0" :> 0 @@ "1" :> 1 @@ "2" :> 2 @@ "3" :> 3 @@ "4" :> 4 @@
    "5" :> 5 @@ "6" :> 6 @@ "7" :> 7 @@ "8" :> 8 @@ "9" :> 9

DigitChar == <<"0", "1", "2", "3", "4", "5", "6", "7", "8", "9">>

Whitespace == {" "}

\* The value of a sequence of digits.
RECURSIVE DigitsValue(_)
DigitsValue(ds) ==
    IF ds = <<>> THEN 0
    ELSE 10 * DigitsValue(SubSeq(ds, 1, Len(ds) - 1)) + DigitVal[ds[Len(ds)]]

\* String(n) for a natural number n.
RECURSIVE ToDigits(_)
ToDigits(n) ==
    IF n < 10 THEN <<DigitChar[n + 1]>>
    ELSE ToDigits(n \div 10) \o <<DigitChar[(n % 10) + 1]>>

\* String.prototype.padStart(width, fill)
RECURSIVE PadStart(_, _, _)
PadStart(s, width, fill) ==
    IF Len(s) >= width THEN s ELSE PadStart(<<fill>> \o s, width, fill)

\* The length of the longest run of digits of s that starts at position i.
RECURSIVE DigitRun(_, _)
DigitRun(s, i) ==
    IF i <= Len(s) /\ s[i] \in Digits THEN 1 + DigitRun(s, i + 1) ELSE 0

\* The length of the run of white space of s that starts at position i.
RECURSIVE SpaceRun(_, _)
SpaceRun(s, i) ==
    IF i <= Len(s) /\ s[i] \in Whitespace THEN 1 + SpaceRun(s, i + 1) ELSE 0

\* String.prototype.trim()
RECURSIVE TrimEnd(_)
TrimEnd(s) ==
    IF s # <<>> /\ s[Len(s)] \in Whitespace THEN TrimEnd(SubSeq(s, 1, Len(s) - 1)) ELSE s

Trim(s) == TrimEnd(SubSeq(s, SpaceRun(s, 1) + 1, Len(s)))

\* The numeral [sign] digits [. digits] at the start of a string: its length
\* and its value in hundredths (fractions of at most two digits), or length
\* 0 when the string starts with no numeral.
SignLen(s) == IF s # <<>> /\ s[1] \in {"-", "+"} THEN 1 ELSE 0

HasDotAt(s, dot) == dot <= Len(s) /\ s[dot] = "."

Hundredths(frac) ==
    IF frac = <<>> THEN 0
    ELSE IF Len(frac) = 1 THEN 10 * DigitsValue(frac)
    ELSE DigitsValue(SubSeq(frac, 1, 2))

Signed(s, magnitude) == IF s[1] = "-" THEN 0 - magnitude ELSE magnitude

NumeralParts(s, signLen, intLen, fracLen) ==
    IF intLen = 0 /\ fracLen = 0
    THEN [len |-> 0, value |-> 0]
    ELSE [len |-> signLen + intLen
                  + (IF fracLen > 0 THEN 1 + fracLen
                     ELSE IF intLen > 0 /\ HasDotAt(s, signLen + intLen + 1) THEN 1
                     ELSE 0),
          value |-> Signed(s,
                       100 * DigitsValue(SubSeq(s, signLen + 1, signLen + intLen))
                       + Hundredths(SubSeq(s, signLen + intLen + 2,
                                           signLen + intLen + 1 + fracLen)))]

NumeralAfterInt(s, signLen, intLen) ==
    NumeralParts(s, signLen, intLen,
                 IF HasDotAt(s, signLen + intLen + 1)
                 THEN DigitRun(s, signLen + intLen + 2) ELSE 0)

NumeralAfterSign(s, signLen) == NumeralAfterInt(s, signLen, DigitRun(s, signLen + 1))

Numeral(s) == NumeralAfterSign(s, SignLen(s))

NumberOrNaN(numeral, wholeLen) ==
    IF numeral.len = 0 \/ (wholeLen >= 0 /\ numeral.len # wholeLen) THEN NaN
    ELSE Num(numeral.value)

\* parseFloat(string): the longest numeral after leading white space.
ParseFloatText(s) == NumberOrNaN(Numeral(SubSeq(s, SpaceRun(s, 1) + 1, Len(s))), -1)

TrimmedToNumber(body) ==
    IF body = <<>> THEN Num(0) ELSE NumberOrNaN(Numeral(body), Len(body))

\* Number(string): the whole trimmed string must be a numeral; "" is 0.
ToNumberText(s) == TrimmedToNumber(Trim(s))

\* parseFloat(value)
parseFloat(v) ==
    IF v.t = "str" THEN ParseFloatText(v.s)
    ELSE IF v.t = "num" THEN v
    ELSE IF v.t = "int" THEN Num(100 * v.i)
    ELSE NaN

\* The number a value is converted to by `>` and by Math.abs.
ToNumber(v) ==
    IF v.t = "str" THEN ToNumberText(v.s)
    ELSE IF v.t = "num" THEN v
    ELSE IF v.t = "int" THEN Num(100 * v.i)
    ELSE IF v.t = "null" THEN Num(0)
    ELSE NaN

IsPositive(n) == n.t = "num" /\ n.n > 0

\* value > 0
GreaterThanZero(v) == IsPositive(ToNumber(v))

AbsNumber(n) == IF n.t = "num" THEN Num(IF n.n < 0 THEN 0 - n.n ELSE n.n) ELSE NaN

\* Math.abs(value)
MathAbs(v) == AbsNumber(ToNumber(v))

\* /^\d{4}-\d{2}-\d{2}$/.test(text)
IsIsoDateText(s) ==
    /\ Len(s) = 10
    /\ \A i \in {1, 2, 3, 4, 6, 7, 9, 10} : s[i] \in Digits
    /\ s[5] = "-"
    /\ s[8] = "-"

SlashDateFields(s, m, d) ==
    IF /\ m \in 1..2 /\ d \in 1..2
       /\ Len(s) = m + d + 6
       /\ s[m + 1] = "/" /\ s[m + d + 2] = "/"
       /\ DigitRun(s, m + d + 3) = 4
    THEN [ok |-> TRUE, year |-> DigitsValue(SubSeq(s, m + d + 3, Len(s))),
          month |-> DigitsValue(SubSeq(s, 1, m)),
          day |-> DigitsValue(SubSeq(s, m + 2, m + d + 1))]
    ELSE [ok |-> FALSE]

SlashDateAfterMonth(s, m) == SlashDateFields(s, m, DigitRun(s, m + 2))

\* The year, month and day of a date text YYYY-MM-DD or M/D/YYYY, or
\* [ok |-> FALSE] for another shape.
DateFields(s) ==
    IF IsIsoDateText(s)
    THEN [ok |-> TRUE, year |-> DigitsValue(SubSeq(s, 1, 4)),
          month |-> DigitsValue(SubSeq(s, 6, 7)), day |-> DigitsValue(SubSeq(s, 9, 10))]
    ELSE SlashDateAfterMonth(s, DigitRun(s, 1))

IsCalendarDate(f) == f.ok /\ f.month \in 1..12 /\ f.day \in 1..28

\* !isNaN(new Date(text).getTime()), for the two shapes above, months 1..12
\* and days 1..28 (the days the date inputs of the model use).
IsValidDateText(s) == IsCalendarDate(DateFields(s))

\* date.toISOString().split('T')[0], the process running in UTC
IsoDateText(f) ==
    PadStart(ToDigits(f.year), 4, "0") \o <<"-">> \o PadStart(ToDigits(f.month), 2, "0")
        \o <<"-">> \o PadStart(ToDigits(f.day), 2, "0")

-----------------------------------------------------------------------------
(* Pattern extractor (extractFinancialData).                               *)

\* A chat message: its text and what the global patterns match in it
\* (message.match(patterns.amount), message.match(patterns.date), the first
\* capture groups of patterns.clientName and patterns.invoiceNumber,
\* message.match(patterns.email)), each in order of occurrence, and the
\* string extractDescription makes of it.
ChatMessage(text, amounts, dates, clients, emails, invoiceNumbers, description) ==
    [text |-> text, amounts |-> amounts, dates |-> dates, clients |-> clients,
     emails |-> emails, invoiceNumbers |-> invoiceNumbers, description |-> description]

\* amounts[0].replace(/[$,]/g, '')
StripDollarsAndCommas(token) == SelectSeq(token, LAMBDA ch : ch \notin {"$", ","})

IsoDateOrNull(f) == IF IsCalendarDate(f) THEN Str(IsoDateText(f)) ELSE Null

(* patterns.amount: /\$?(\d{1,3}(?:,\d{3})*(?:\.\d{2})?)/g, on a text given *)
(* as the sequence of its characters.                                      *)

CharAt(s, i) == IF i \in 1..Len(s) THEN s[i] ELSE ""

\* (?:,\d{3})* at position j: the length it matches
RECURSIVE CommaGroupsLen(_, _)
CommaGroupsLen(s, j) ==
    IF CharAt(s, j) = "," /\ DigitRun(s, j + 1) >= 3
    THEN 4 + CommaGroupsLen(s, j + 4)
    ELSE 0

\* (?:\.\d{2})? at position k: the length it matches
FractionLen(s, k) == IF CharAt(s, k) = "." /\ DigitRun(s, k + 1) >= 2 THEN 3 ELSE 0

AmountAfterGroups(s, d, lead, groups) == lead + groups + FractionLen(s, d + lead + groups)

AmountAfterLead(s, d, lead) == AmountAfterGroups(s, d, lead, CommaGroupsLen(s, d + lead))

\* The capture group at position d: \d{1,3} takes at most three digits, the
\* rest is optional, so the greedy match is the match. 0 when none.
AmountNumeralLen(s, d) ==
    IF DigitRun(s, d) = 0 THEN 0 ELSE AmountAfterLead(s, d, Min({DigitRun(s, d), 3}))

\* The length of the match of the pattern that starts at position i, or 0.
AmountMatchLen(s, i) ==
    IF CharAt(s, i) = "$" /\ AmountNumeralLen(s, i + 1) > 0
    THEN 1 + AmountNumeralLen(s, i + 1)
    ELSE AmountNumeralLen(s, i)

\* message.match(patterns.amount): the matches from position i on, left to
\* right, each search resuming where the last match ended.
RECURSIVE MatchAmountsFrom(_, _)
MatchAmountsStep(s, i, len) ==
    IF len > 0 THEN <<SubSeq(s, i, i + len - 1)>> \o MatchAmountsFrom(s, i + len)
    ELSE MatchAmountsFrom(s, i + 1)

MatchAmountsFrom(s, i) ==
    IF i > Len(s) THEN <<>> ELSE MatchAmountsStep(s, i, AmountMatchLen(s, i))

MatchAmounts(s) == MatchAmountsFrom(s, 1)

normalizeDate(dateString) == IsoDateOrNull(DateFields(dateString))

\* An object as the function from its own keys to their values.
EmptyObject == <<>>

\* object.key = value
SetField(object, key, value) ==
    [k \in (DOMAIN object) \cup {key} |-> IF k = key THEN value ELSE object[k]]

\* object.key
Field(object, key) == IF key \in DOMAIN object THEN object[key] ELSE Undefined

\* if (matches && matches.length > 0) data.key = value
SetIfMatched(data, matches, key, value) ==
    IF Len(matches) > 0 THEN SetField(data, key, value) ELSE data

extractFinancialData(message) ==
    LET d1 == SetIfMatched(EmptyObject, message.amounts, "amount",
                  Str(StripDollarsAndCommas(Head(message.amounts))))
        d2 == SetIfMatched(d1, message.dates, "date", normalizeDate(Head(message.dates)))
        d3 == SetIfMatched(d2, message.clients, "client", Str(Trim(Head(message.clients))))
        d4 == SetIfMatched(d3, message.emails, "email", Str(Head(message.emails)))
        d5 == SetIfMatched(d4, message.invoiceNumbers, "invoiceNumber",
                  Str(Head(message.invoiceNumbers)))
    IN  SetField(d5, "description", Str(message.description))

\* The amount extractFinancialData puts in its result for a text: the first
\* match with '$' and ',' removed, or no amount at all.
AmountOfMatches(amounts) ==
    Field(SetIfMatched(EmptyObject, amounts, "amount",
                       Str(StripDollarsAndCommas(Head(amounts)))),
          "amount")

ExtractedAmount(s) == AmountOfMatches(MatchAmounts(s))

(* Messages written character by character and given to the extractor.     *)

TextAlphabet == {"$", "1", "0", ",", ".", " "}

NotExtracted == [t |-> "none"]

TypeChar(ch) ==
    /\ extracted = NotExtracted
    /\ Len(typed) < MaxText
    /\ typed' = Append(typed, ch)
    /\ UNCHANGED extracted

ExtractAmount ==
    /\ extracted = NotExtracted
    /\ extracted' = ExtractedAmount(typed)
    /\ UNCHANGED typed

InitExtract ==
    /\ typed = <<>>
    /\ extracted = NotExtracted

-----------------------------------------------------------------------------
(* JSON.parse on a text given as the sequence of its characters. The texts  *)
(* of the model are written with braces, quotes, backslashes, colons and    *)
(* letters, so the values they can denote are strings and objects.          *)

Quote == "\""
Backslash == "\\"

ParseFail == [ok |-> FALSE]
Parsed(end, value) == [ok |-> TRUE, end |-> end, value |-> value]

\* The position of the first character at or after i that is no white space.
SkipWs(s, i) == i + SpaceRun(s, i)

\* The rest of a string literal whose opening quote is before position j:
\* \" and \\ are escapes, any other character after a backslash is an error.
RECURSIVE StringBody(_, _, _)
StringBody(s, j, acc) ==
    IF j > Len(s) THEN ParseFail
    ELSE IF s[j] = Quote THEN Parsed(j + 1, Str(acc))
    ELSE IF s[j] = Backslash
    THEN IF CharAt(s, j + 1) \in {Quote, Backslash}
         THEN StringBody(s, j + 2, Append(acc, s[j + 1]))
         ELSE ParseFail
    ELSE StringBody(s, j + 1, Append(acc, s[j]))

RECURSIVE ParseValue(_, _)
RECURSIVE ParseMember(_, _, _)

\* After a member: '}' ends the object, ',' starts the next member.
AfterMember(s, i, members) ==
    IF CharAt(s, i) = "}" THEN Parsed(i + 1, Obj(members))
    ELSE IF CharAt(s, i) = "," THEN ParseMember(s, SkipWs(s, i + 1), members)
    ELSE ParseFail

\* A later member replaces an earlier one of the same name.
AfterMemberValue(s, key, v, members) ==
    IF v.ok THEN AfterMember(s, SkipWs(s, v.end), (key :> v.value) @@ members)
    ELSE ParseFail

AfterColon(s, key, i, members) ==
    IF CharAt(s, i) = ":"
    THEN AfterMemberValue(s, key, ParseValue(s, SkipWs(s, i + 1)), members)
    ELSE ParseFail

AfterKey(s, k, members) ==
    IF k.ok THEN AfterColon(s, k.value.s, SkipWs(s, k.end), members) ELSE ParseFail

ParseMember(s, i, members) ==
    IF CharAt(s, i) = Quote THEN AfterKey(s, StringBody(s, i + 1, <<>>), members)
    ELSE ParseFail

ParseObject(s, i) ==
    IF CharAt(s, i) = "}" THEN Parsed(i + 1, Obj(<<>>)) ELSE ParseMember(s, i, <<>>)

ParseValue(s, i) ==
    IF CharAt(s, i) = Quote THEN StringBody(s, i + 1, <<>>)
    ELSE IF CharAt(s, i) = "{" THEN ParseObject(s, SkipWs(s, i + 1))
    ELSE ParseFail

\* The whole text must be one value, white space around it allowed.
WholeValue(s, v) ==
    IF v.ok /\ SkipWs(s, v.end) > Len(s) THEN Ok(v.value) ELSE Throw(Error("SyntaxError", {}))

JsonParse(s) == WholeValue(s, ParseValue(s, SkipWs(s, 1)))

(* extractValidJson (langchainService.js).                                 *)

\* Mutant of IndexOfBrace: trimmed.lastIndexOf('{').
LastIndexOfBrace(s) ==
    IF \E i \in 1..Len(s) : s[i] = "{" THEN Len(s) + 1 - Min({Len(s) + 1 - i : i \in {j \in 1..Len(s) : s[j] = "{"}}) ELSE 0

\* trimmed.indexOf('{'), 1-based; 0 stands for -1.
IndexOfBrace(s) ==
    IF \E i \in 1..Len(s) : s[i] = "{" THEN Min({i \in 1..Len(s) : s[i] = "{"}) ELSE 0

\* try { return JSON.parse(jsonStr) } catch (parseError) { return null }
ParseOrNull(parsed) == IF parsed.kind = "ok" THEN parsed.value ELSE Null

\* Mutant of CountsBraces: braces are counted inside strings too.
CountsBracesAlways(inString) == TRUE

\* if (!inString) { ... }
CountsBraces(inString) == ~inString

\* The for loop from position i on, with the values of its three locals.
RECURSIVE ScanBraces(_, _, _, _, _, _)
ScanBraces(trimmed, firstBrace, i, braceCount, inString, escapeNext) ==
    IF i > Len(trimmed) THEN Null
    ELSE IF escapeNext
    THEN ScanBraces(trimmed, firstBrace, i + 1, braceCount, inString, FALSE)
    ELSE IF trimmed[i] = Backslash
    THEN ScanBraces(trimmed, firstBrace, i + 1, braceCount, inString, TRUE)
    ELSE IF trimmed[i] = Quote
    THEN ScanBraces(trimmed, firstBrace, i + 1, braceCount, ~inString, FALSE)
    ELSE IF CountsBraces(inString) /\ trimmed[i] = "{"
    THEN ScanBraces(trimmed, firstBrace, i + 1, braceCount + 1, inString, FALSE)
    ELSE IF CountsBraces(inString) /\ trimmed[i] = "}"
    THEN IF braceCount - 1 = 0
         THEN ParseOrNull(JsonParse(SubSeq(trimmed, firstBrace, i)))
         ELSE ScanBraces(trimmed, firstBrace, i + 1, braceCount - 1, inString, FALSE)
    ELSE ScanBraces(trimmed, firstBrace, i + 1, braceCount, inString, FALSE)

ScanFromBrace(trimmed, firstBrace) ==
    IF firstBrace = 0 THEN Null
    ELSE ScanBraces(trimmed, firstBrace, firstBrace, 0, FALSE, FALSE)

\* The catch block: the whole text did not parse.
ScanTrimmed(trimmed) == ScanFromBrace(trimmed, IndexOfBrace(trimmed))

WholeOrScan(str, whole) ==
    IF whole.kind = "ok" THEN whole.value ELSE ScanTrimmed(Trim(str))

extractValidJson(str) == WholeOrScan(str, JsonParse(str))

(* Replies written from parts and given to extractValidJson.               *)

ReplyParts ==
    { <<"a">>, <<"{">>, <<"}">>, <<Quote>>, <<Backslash>>,
      <<Quote, "a", Quote, ":">>,
      <<Quote, "}", Backslash, Quote, "{", Quote>> }

RECURSIVE Flatten(_)
Flatten(parts) == IF parts = <<>> THEN <<>> ELSE Head(parts) \o Flatten(Tail(parts))

TypePart(part) ==
    /\ extracted = NotExtracted
    /\ Len(typed) < MaxParts
    /\ typed' = Append(typed, part)
    /\ UNCHANGED extracted

ExtractJson ==
    /\ extracted = NotExtracted
    /\ extracted' = extractValidJson(Flatten(typed))
    /\ UNCHANGED typed

-----------------------------------------------------------------------------
(* In-memory accounting backend (createInvoice, recordTransaction,         *)
(* generateBalanceSheet).                                                  *)

PaymentTermsDays == 30
InvoiceNumberWidth == 4
TransactionIdWidth == 6

Today == <<"2", "0", "2", "4", "-", "0", "6", "-", "0", "1">>

Backend(inv, txn, invCounter, txnCounter) ==
    [invoices |-> inv, transactions |-> txn,
     invoiceCounter |-> invCounter, transactionCounter |-> txnCounter]

CurrentBackend == Backend(invoices, transactions, invoiceCounter, transactionCounter)

\* z.string().min(1)
IsNonEmptyString(v) == v.t = "str" /\ v.s # <<>>

\* Mutant of IsPositiveNumber: any number passes.
IsAnyNumber(v) == v.t = "num"

\* z.number().positive()
IsPositiveNumber(v) == v.t = "num" /\ v.n > 0

\* z.string().regex(/^\d{4}-\d{2}-\d{2}$/)
IsDateString(v) == v.t = "str" /\ IsIsoDateText(v.s)

\* invoiceSchema.parse(invoiceData) does not throw
InvoiceSchemaAccepts(d) ==
    /\ IsNonEmptyString(d.client)
    /\ IsPositiveNumber(d.amount)
    /\ IsNonEmptyString(d.description)
    /\ IsDateString(d.date)
    /\ d.userId.t = "str"

\* transactionSchema.parse(transactionData) does not throw
TransactionSchemaAccepts(d) ==
    /\ d.amount.t = "num"
    /\ IsNonEmptyString(d.description)
    /\ IsDateString(d.date)
    /\ d.type \in {"income", "expense"}
    /\ d.userId.t = "str"

\* calculateDueDate(issueDate): the date paymentTerms days later; toISOString
\* throws a RangeError when issueDate is no calendar date.
calculateDueDate(issueDate) ==
    IF IsValidDateText(issueDate.s)
    THEN Ok([from |-> issueDate.s, plusDays |-> PaymentTermsDays])
    ELSE Throw(Error("RangeError", {}))

\* Returned by a backend operation: its outcome and the backend after it.
Effect(outcome, backend) == [outcome |-> outcome, backend |-> backend]

\* Mutant of InvoiceRejected: the rejected call has taken an id.
InvoiceRejectedTakesId(b) ==
    Effect(Throw(Error("Error", {"Invalid invoice data"})),
           [b EXCEPT !.invoiceCounter = @ + 1])

\* invoiceSchema.parse throws a ZodError before anything is read or written.
InvoiceRejected(b) == Effect(Throw(Error("Error", {"Invalid invoice data"})), b)

createInvoice(invoiceData, b) ==
    IF ~InvoiceSchemaAccepts(invoiceData)
    THEN InvoiceRejected(b)
    ELSE LET due == calculateDueDate(invoiceData.date)
         IN  IF due.kind = "throw"
             THEN Effect(Throw(Error("Error", {"Failed to create invoice"})), b)
             ELSE LET invoice ==
                          [id |-> b.invoiceCounter,
                           invoice_number |->
                               <<"INV-">> \o PadStart(ToDigits(b.invoiceCounter),
                                                      InvoiceNumberWidth, "0"),
                           customer_name |-> invoiceData.client,
                           amount |-> invoiceData.amount,
                           description |-> invoiceData.description,
                           issue_date |-> invoiceData.date,
                           due_date |-> due.value,
                           status |-> "pending",
                           currency |-> "USD",
                           created_at |-> now,
                           user_id |-> invoiceData.userId]
                  IN  Effect(Ok(invoice),
                             [b EXCEPT !.invoices = Append(@, invoice),
                                       !.invoiceCounter = @ + 1])

\* ToLowerCase of a fragment that has upper-case letters.
LowerCased ==
    "Office" :> "office" @@ "Coffee" :> "coffee" @@ "Web" :> "web"

toLowerCase(s) ==
    [i \in DOMAIN s |-> IF s[i] \in DOMAIN LowerCased THEN LowerCased[s[i]] ELSE s[i]]

Categories ==
    << [category |-> "office", keywords |-> {"office", "supplies", "equipment"}],
       [category |-> "travel", keywords |-> {"travel", "flight", "hotel", "gas"}],
       [category |-> "marketing", keywords |-> {"marketing", "advertising", "promotion"}],
       [category |-> "software", keywords |-> {"software", "subscription", "saas"}],
       [category |-> "professional", keywords |-> {"consulting", "legal", "accounting"}] >>

\* lowerDesc.includes(keyword), for a description of whole words
IncludesWord(s, keyword) == \E i \in DOMAIN s : s[i] = keyword

categorizeTransaction(description) ==
    LET lowerDesc == toLowerCase(description)
        hits == {i \in DOMAIN Categories :
                    \E k \in Categories[i].keywords : IncludesWord(lowerDesc, k)}
    IN  IF hits = {} THEN "general" ELSE Categories[Min(hits)].category

recordTransaction(transactionData, b) ==
    IF ~TransactionSchemaAccepts(transactionData)
    THEN Effect(Throw(Error("Error", {"Invalid transaction data"})), b)
    ELSE LET transaction ==
                 [id |-> b.transactionCounter,
                  transaction_id |->
                      <<"TXN-">> \o PadStart(ToDigits(b.transactionCounter),
                                             TransactionIdWidth, "0"),
                  amount |-> transactionData.amount,
                  description |-> transactionData.description,
                  date |-> transactionData.date,
                  type |-> transactionData.type,
                  category |-> categorizeTransaction(transactionData.description.s),
                  currency |-> "USD",
                  created_at |-> now,
                  user_id |-> transactionData.userId]
         IN  Effect(Ok(transaction),
                    [b EXCEPT !.transactions = Append(@, transaction),
                              !.transactionCounter = @ + 1])

\* array.reduce((sum, x) => sum + amount(x), 0), in hundredths
RECURSIVE SumAmounts(_)
SumAmounts(records) ==
    IF records = <<>> THEN 0
    ELSE records[1].amount.n + SumAmounts(Tail(records))

RECURSIVE SumAbsAmounts(_)
SumAbsAmounts(records) ==
    IF records = <<>> THEN 0
    ELSE MathAbs(records[1].amount).n + SumAbsAmounts(Tail(records))

\* Mutant of OwnedBy: the records of every user.
OwnedByAnyone(records, userId) == records

\* records.filter(r => r.user_id === userId)
OwnedBy(records, userId) == SelectSeq(records, LAMBDA r : r.user_id = userId)

generateBalanceSheet(userId, b) ==
    LET userInvoices == OwnedBy(b.invoices, userId)
        userTransactions == OwnedBy(b.transactions, userId)
        totalRevenue == SumAmounts(userInvoices)
        totalExpenses ==
            SumAbsAmounts(SelectSeq(userTransactions, LAMBDA txn : txn.type = "expense"))
        totalIncome ==
            SumAmounts(SelectSeq(userTransactions, LAMBDA txn : txn.type = "income"))
        pendingInvoices == SelectSeq(userInvoices, LAMBDA inv : inv.status = "pending")
    IN  Effect(Ok([totalRevenue |-> totalRevenue + totalIncome,
                   totalExpenses |-> totalExpenses,
                   netIncome |-> (totalRevenue + totalIncome) - totalExpenses,
                   outstandingInvoices |-> Len(pendingInvoices),
                   outstandingAmount |-> SumAmounts(pendingInvoices),
                   totalInvoices |-> Len(userInvoices),
                   totalTransactions |-> Len(userTransactions),
                   generatedAt |-> now]),
               b)

-----------------------------------------------------------------------------
(* Chat pipeline (processMessage and its handlers).                        *)

\* a || b
JsOr(a, b) == IF Falsy(a) THEN b ELSE a

\* {...value}: the own properties of an object; none for null, undefined
\* and numbers (no input of the model has a string to spread).
Spread(v) == IF v.t = "obj" THEN v.o ELSE EmptyObject

\* {...a, ...b}: a later spread overwrites the keys it has.
SpreadMerge(a, b) ==
    [k \in (DOMAIN a) \cup (DOMAIN b) |-> IF k \in DOMAIN b THEN b[k] ELSE a[k]]

\* A user-facing message: the template it is built from and the values
\* embedded in it, in order.
Message(template, args) == [template |-> template, args |-> args]

Response(message, data) == [message |-> message, data |-> data]

NeedInvoiceInfo == Message("I need more information to create an invoice", <<>>)
InvoiceFailed == Message("Sorry, I couldn't create the invoice", <<>>)
NeedTransactionInfo == Message("I need more details to record this transaction", <<>>)
TransactionFailed == Message("Sorry, I couldn't record the transaction", <<>>)
BalanceSheetFailed == Message("Sorry, I couldn't generate the balance sheet", <<>>)
CannedHelp == Message("I'm here to help with your financial needs", <<>>)

\* A call a handler made to the accounting backend: the function, the
\* argument it was given and how the call ended.
BackendCall(fn, input, outcome) == [fn |-> fn, input |-> input, outcome |-> outcome]
NoBackendCall == [fn |-> "none"]

\* Returned by a handler: its response, the backend after it and the call
\* it made to the backend.
Handled(response, backend, call) ==
    [response |-> response, backend |-> backend, call |-> call]

\* The fallback of detectIntent.
FallbackIntent ==
    Obj("intent" :> Str(<<"GENERAL_INQUIRY">>) @@ "confidence" :> Num(50)
        @@ "entities" :> Obj(EmptyObject))

\* A completion of the chat model: its text parsed by JSON.parse (`body`,
\* Invalid when it is no JSON), or the error of the call.
Completion(body) == [kind |-> "content", body |-> body]
CompletionError == [kind |-> "error"]

\* detectIntent(message) of the AI service: the value it resolves to.
detectIntent(completion) ==
    IF completion.kind = "content" /\ completion.body # Invalid
    THEN completion.body
    ELSE FallbackIntent

\* Mutant of MissingInvoiceFields: asks only when both are missing.
MissingInvoiceFieldsBoth(data) ==
    Falsy(Field(data, "client")) /\ Falsy(Field(data, "amount"))

\* !data.client || !data.amount
MissingInvoiceFields(data) ==
    Falsy(Field(data, "client")) \/ Falsy(Field(data, "amount"))

\* Mutant of InvoiceResponse: answers with the argument of the call in place
\* of the record the call returned.
InvoiceResponseEchoesInput(data, input, effect) ==
    IF effect.outcome.kind = "ok"
    THEN Handled(
             Response(Message("Invoice created successfully!",
                              <<Field(data, "client"), Field(data, "amount")>>),
                      input),
             effect.backend,
             BackendCall("createInvoice", input, effect.outcome))
    ELSE Handled(Response(InvoiceFailed, Null), effect.backend,
                 BackendCall("createInvoice", input, effect.outcome))

\* The response of handleInvoiceCreation after createInvoice: its try block
\* when the call returned, its catch block when it threw.
InvoiceResponse(data, input, effect) ==
    IF effect.outcome.kind = "ok"
    THEN Handled(
             Response(Message("Invoice created successfully!",
                              <<Whole(effect.outcome.value.id),
                                Field(data, "client"), Field(data, "amount")>>),
                      effect.outcome.value),
             effect.backend,
             BackendCall("createInvoice", input, effect.outcome))
    ELSE Handled(Response(InvoiceFailed, Null), effect.backend,
                 BackendCall("createInvoice", input, effect.outcome))

\* The argument handleInvoiceCreation gives to createInvoice.
InvoiceInput(data, userId) ==
    [client |-> Field(data, "client"),
     amount |-> parseFloat(Field(data, "amount")),
     description |-> JsOr(Field(data, "description"), Str(<<"Service provided">>)),
     date |-> JsOr(Field(data, "date"), Str(Today)),
     userId |-> userId]

InvoiceCalled(data, input, b) == InvoiceResponse(data, input, createInvoice(input, b))

handleInvoiceCreation(data, userId, b) ==
    IF MissingInvoiceFields(data)
    THEN Handled(Response(NeedInvoiceInfo, Null), b, NoBackendCall)
    ELSE InvoiceCalled(data, InvoiceInput(data, userId), b)

\* !data.amount || !data.description
MissingTransactionFields(data) ==
    Falsy(Field(data, "amount")) \/ Falsy(Field(data, "description"))

\* The response of handleTransactionRecord after recordTransaction.
TransactionResponse(data, input, effect) ==
    IF effect.outcome.kind = "ok"
    THEN Handled(
             Response(Message("Transaction recorded successfully!",
                              <<Field(data, "description"),
                                MathAbs(Field(data, "amount"))>>),
                      effect.outcome.value),
             effect.backend,
             BackendCall("recordTransaction", input, effect.outcome))
    ELSE Handled(Response(TransactionFailed, Null), effect.backend,
                 BackendCall("recordTransaction", input, effect.outcome))

\* The argument handleTransactionRecord gives to recordTransaction.
TransactionInput(data, userId) ==
    [amount |-> parseFloat(Field(data, "amount")),
     description |-> Field(data, "description"),
     date |-> JsOr(Field(data, "date"), Str(Today)),
     type |-> IF GreaterThanZero(Field(data, "amount")) THEN "income" ELSE "expense",
     userId |-> userId]

TransactionCalled(data, input, b) ==
    TransactionResponse(data, input, recordTransaction(input, b))

handleTransactionRecord(data, userId, b) ==
    IF MissingTransactionFields(data)
    THEN Handled(Response(NeedTransactionInfo, Null), b, NoBackendCall)
    ELSE TransactionCalled(data, TransactionInput(data, userId), b)

\* Mutant of BalanceSheetResponse: the message gives the revenue where the
\* net income belongs.
BalanceSheetResponseNoNet(userId, effect) ==
    IF effect.outcome.kind = "ok"
    THEN Handled(
             Response(Message("Here's your current balance sheet",
                              <<Num(effect.outcome.value.totalRevenue),
                                Num(effect.outcome.value.totalExpenses),
                                Num(effect.outcome.value.totalRevenue),
                                Whole(effect.outcome.value.outstandingInvoices)>>),
                      effect.outcome.value),
             effect.backend,
             BackendCall("generateBalanceSheet", userId, effect.outcome))
    ELSE Handled(Response(BalanceSheetFailed, Null), effect.backend,
                 BackendCall("generateBalanceSheet", userId, effect.outcome))

\* The response of handleBalanceSheetGeneration after generateBalanceSheet.
BalanceSheetResponse(userId, effect) ==
    IF effect.outcome.kind = "ok"
    THEN Handled(
             Response(Message("Here's your current balance sheet",
                              <<Num(effect.outcome.value.totalRevenue),
                                Num(effect.outcome.value.totalExpenses),
                                Num(effect.outcome.value.netIncome),
                                Whole(effect.outcome.value.outstandingInvoices)>>),
                      effect.outcome.value),
             effect.backend,
             BackendCall("generateBalanceSheet", userId, effect.outcome))
    ELSE Handled(Response(BalanceSheetFailed, Null), effect.backend,
                 BackendCall("generateBalanceSheet", userId, effect.outcome))

handleBalanceSheetGeneration(userId, b) ==
    BalanceSheetResponse(userId, generateBalanceSheet(userId, b))

\* handleGeneralInquiry(message), once its model call has ended.
handleGeneralInquiry(completion) ==
    IF completion.kind = "content"
    THEN Response(Message("content", <<completion.body>>), Null)
    ELSE Response(CannedHelp, Null)

\* Mutant of ActionIntents: GENERAL_INQUIRY has a case of its own that falls
\* into the last handler.
ActionIntentsWithInquiry ==
    {Str(<<"CREATE_INVOICE">>), Str(<<"RECORD_TRANSACTION">>),
     Str(<<"GENERATE_BALANCE_SHEET">>), Str(<<"GENERAL_INQUIRY">>)}

ActionIntents ==
    {Str(<<"CREATE_INVOICE">>), Str(<<"RECORD_TRANSACTION">>),
     Str(<<"GENERATE_BALANCE_SHEET">>)}

\* The switch of processMessage for the three action intents.
Dispatch(intentName, mergedData, userId, b) ==
    IF intentName = Str(<<"CREATE_INVOICE">>)
    THEN handleInvoiceCreation(mergedData, userId, b)
    ELSE IF intentName = Str(<<"RECORD_TRANSACTION">>)
    THEN handleTransactionRecord(mergedData, userId, b)
    ELSE handleBalanceSheetGeneration(userId, b)

\* const mergedData = { ...intent.entities, ...extractedData }
MergeEntities(entities, extractedData) == SpreadMerge(entities, extractedData)

(* The calls of processMessage.                                            *)

ChatRequests == {"q1"}

IdleChat == [pc |-> "idle"]

\* The locals of a call of processMessage, its result and the call it made
\* to the backend.
ChatState(pc, message, userId, intent, extractedData, mergedData, result, backendCall) ==
    [pc |-> pc, message |-> message, userId |-> userId, intent |-> intent,
     extractedData |-> extractedData, mergedData |-> mergedData, result |-> result,
     backendCall |-> backendCall]

\* processMessage is called: detectIntent awaits the model.
ChatCall(q, message, userId) ==
    /\ chat[q].pc = "idle"
    /\ Len(invoices) < MaxInvoices
    /\ Len(transactions) < MaxTransactions
    /\ Len(invoices) + Len(transactions) < MaxRecords
    /\ chat' = [chat EXCEPT ![q] =
           ChatState("awaitIntent", message, userId, Undefined, EmptyObject,
                     EmptyObject, NoResult, NoBackendCall)]
    /\ UNCHANGED backendVars

\* processMessage ends with the response of a handler.
ChatHandled(q, c, intent, extractedData, mergedData, h) ==
    /\ chat' = [chat EXCEPT ![q] =
           ChatState("done", c.message, c.userId, intent, extractedData, mergedData,
                     Resolved(h.response), h.call)]
    /\ invoices' = h.backend.invoices
    /\ transactions' = h.backend.transactions
    /\ invoiceCounter' = h.backend.invoiceCounter
    /\ transactionCounter' = h.backend.transactionCounter

\* The switch of processMessage on intent.intent.
ChatSwitch(q, c, intent, intentName, extractedData, mergedData) ==
    IF intentName \in ActionIntents
    THEN ChatHandled(q, c, intent, extractedData, mergedData,
                     Dispatch(intentName, mergedData, c.userId, CurrentBackend))
    ELSE /\ chat' = [chat EXCEPT ![q] =
                ChatState("awaitInquiry", c.message, c.userId, intent,
                          extractedData, mergedData, NoResult, NoBackendCall)]
         /\ UNCHANGED backendVars

ChatMerge(q, c, intent, extractedData) ==
    ChatSwitch(q, c, intent, Prop(intent, "intent"), extractedData,
               MergeEntities(Spread(Prop(intent, "entities")), extractedData))

\* processMessage from the value detectIntent resolved to.
ChatAfterIntent(q, c, intent) ==
    IF PropertyThrows(intent)
    THEN \* reading intent.intent throws a TypeError; the catch block logs
         \* and rethrows it
         /\ chat' = [chat EXCEPT ![q] =
                ChatState("done", c.message, c.userId, intent, EmptyObject,
                          EmptyObject, Rejected(Error("TypeError", {})),
                          NoBackendCall)]
         /\ UNCHANGED backendVars
    ELSE ChatMerge(q, c, intent, extractFinancialData(c.message))

\* The model call of detectIntent has ended: processMessage runs up to its
\* next await or to its end.
ChatIntentReplies(q, completion) ==
    /\ chat[q].pc = "awaitIntent"
    /\ ChatAfterIntent(q, chat[q], detectIntent(completion))

\* The model call of handleGeneralInquiry has ended.
ChatInquiryReplies(q, completion) ==
    /\ chat[q].pc = "awaitInquiry"
    /\ chat' = [chat EXCEPT ![q].pc = "done",
                           ![q].result = Resolved(handleGeneralInquiry(completion))]
    /\ UNCHANGED backendVars

\* The caller has taken the result.
ChatReturn(q) ==
    /\ chat[q].pc = "done"
    /\ chat' = [chat EXCEPT ![q] = IdleChat]
    /\ UNCHANGED backendVars

(* Inputs: the messages, the users and the completions of the chat model.  *)

MsgInvoice ==
    ChatMessage("Create an invoice for Jane for $500",
                << <<"$", "5", "0", "0">> >>, <<>>, << <<"Jane", " ", "for">> >>,
                <<>>, <<>>, <<"for", " ", "jane">>)

MsgSpent ==
    ChatMessage("I spent $50 on coffee on 13/45/2024",
                << <<"$", "5", "0">>, <<"1", "3">>, <<"4", "5">>, <<"2", "0", "2">>, <<"4">> >>,
                << <<"1", "3", "/", "4", "5", "/", "2", "0", "2", "4">> >>, <<>>,
                <<>>, <<>>,
                <<"i", " ", "spent", " ", "on", " ", "coffee", " ", "on", " ", "13/45/2024">>)

MsgDated ==
    ChatMessage("Invoice Jane on 2024-01-15",
                << <<"2", "0", "2">>, <<"4">>, <<"0", "1">>, <<"1", "5">> >>,
                << <<"2", "0", "2", "4", "-", "0", "1", "-", "1", "5">> >>, <<>>,
                <<>>, <<>>,
                <<"invoice", " ", "jane", " ", "on", " ", "4-01-15">>)

MsgHello == ChatMessage("hello", <<>>, <<>>, <<>>, <<>>, <<>>, <<"hello">>)

ChatMessages == {MsgInvoice, MsgSpent, MsgDated, MsgHello}

ChatUsers == {Str(<<"u1">>), Str(<<"u2">>)}

ModelDate == Str(<<"2", "0", "2", "4", "-", "0", "3", "-", "1", "0">>)

\* A reply naming CREATE_INVOICE with a client and an amount.
InvoiceBody(client, amount) ==
    Obj("intent" :> Str(<<"CREATE_INVOICE">>) @@ "confidence" :> Num(90)
        @@ "entities" :> Obj("client" :> client @@ "amount" :> amount))

\* A reply naming RECORD_TRANSACTION with an amount and a description.
TransactionBody(amount, description) ==
    Obj("intent" :> Str(<<"RECORD_TRANSACTION">>) @@ "confidence" :> Num(90)
        @@ "entities" :> Obj("amount" :> amount @@ "description" :> description))

ChatBodies ==
    { Obj("intent" :> Str(<<"CREATE_INVOICE">>) @@ "confidence" :> Num(95)
          @@ "entities" :> Obj("client" :> Str(<<"Jane">>)
                               @@ "amount" :> Str(<<"7", "5", "0">>)
                               @@ "description" :> Str(<<"Web", " ", "design">>)
                               @@ "date" :> ModelDate)),
      Obj("intent" :> Str(<<"CREATE_INVOICE">>) @@ "confidence" :> Num(80)
          @@ "entities" :> Obj("client" :> Null @@ "amount" :> Null)),
      Obj("intent" :> Str(<<"RECORD_TRANSACTION">>) @@ "confidence" :> Num(90)
          @@ "entities" :> Obj("amount" :> Str(<<"-", "2", "0">>)
                               @@ "description" :> Str(<<"coffee">>))),
      Obj("intent" :> Str(<<"GENERATE_BALANCE_SHEET">>) @@ "confidence" :> Num(90)
          @@ "entities" :> Obj(EmptyObject)),
      InvoiceBody(Str(<<"Acme">>), Str(<<"0">>)),
      InvoiceBody(Str(<<"Acme">>), Str(<<"-", "5">>)),
      InvoiceBody(Str(<<"Acme">>), Str(<<"a", "b", "c">>)),
      TransactionBody(Str(<<"2", "0">>), Str(<<"refund">>)),
      TransactionBody(Str(<<"1", "2", "a", "b", "c">>), Str(<<"coffee">>)),
      Obj("intent" :> Str(<<"DELETE_ALL">>) @@ "confidence" :> Num(90)
          @@ "entities" :> Obj(EmptyObject)),
      Obj(EmptyObject),
      Null,
      Invalid }

ChatCompletions == {Completion(b) : b \in ChatBodies} \cup {CompletionError}

InquiryCompletions == {Completion(Str(<<"Happy to help!">>)), CompletionError}

InitChat ==
    /\ invoices = <<>>
    /\ transactions = <<>>
    /\ invoiceCounter = 1
    /\ transactionCounter = 1
    /\ chat = [q \in ChatRequests |-> IdleChat]

-----------------------------------------------------------------------------
(* Specifications.                                                         *)

Init == InitStore /\ InitIntent /\ InitChat /\ InitExtract

(* SpecMem: every store operation on every key, MaxCalls calls.            *)

StoreFrame == UNCHANGED <<intentVars, chatVars, extractVars>>

\* A call of the store within the call budget, recorded in the log.
Budgeted(call) == Len(callLog) < MaxCalls /\ Logged(call) /\ StoreFrame

NextMem ==
    \/ \E u \in Users, c \in Convs, item \in Items(now) :
          AddToConversationMemory(u, c, item) /\ Budgeted(Call("add", u, c, item.type))
    \/ \E u \in Users, c \in Convs, d \in PendingData :
          SetPendingExtractedData(u, c, d) /\ Budgeted(Call("setPending", u, c, d))
    \/ \E u \in Users, c \in Convs :
          ClearPendingExtractedData(u, c) /\ Budgeted(Call("clearPending", u, c, NullData))
    \/ \E u \in Users, c \in Convs :
          ClearConversationMemory(u, c) /\ Budgeted(Call("clear", u, c, NullData))

SpecMem == Init /\ [][NextMem]_vars

(* SpecKeys: the store operations on identifiers that contain '-'.       *)

KeyUsers == {"a", "a-b"}
KeyConvs == {"c", "b-c"}
KeyItem == ConversationItem("hello", <<"hi">>, 0)

KeyBudgeted(call) == Len(callLog) < MaxKeyCalls /\ Logged(call) /\ StoreFrame

NextKeys ==
    \/ \E u \in KeyUsers, c \in KeyConvs :
          AddToConversationMemory(u, c, KeyItem) /\ KeyBudgeted(Call("add", u, c, KeyItem.type))
    \/ \E u \in KeyUsers, c \in KeyConvs :
          SetPendingExtractedData(u, c, "d1") /\ KeyBudgeted(Call("setPending", u, c, "d1"))
    \/ \E u \in KeyUsers, c \in KeyConvs :
          ClearPendingExtractedData(u, c) /\ KeyBudgeted(Call("clearPending", u, c, NullData))
    \/ \E u \in KeyUsers, c \in KeyConvs :
          ClearConversationMemory(u, c) /\ KeyBudgeted(Call("clear", u, c, NullData))

SpecKeys == Init /\ [][NextKeys]_vars

(* SpecCap: one key driven past the cap by every store operation.          *)

CapFrame == UNCHANGED <<callLog, intentVars, chatVars, extractVars>>

NextCap ==
    \/ Tick /\ StoreFrame
    \/ AddToConversationMemory(CapUser, CapConv, ConversationItem("hello", <<"hi">>, now))
          /\ CapFrame
    \/ SetPendingExtractedData(CapUser, CapConv, "d1") /\ CapFrame
    \/ ClearPendingExtractedData(CapUser, CapConv) /\ CapFrame
    \/ ClearConversationMemory(CapUser, CapConv) /\ CapFrame

SpecCap == Init /\ [][NextCap]_vars

(* SpecContext: one history of mixed entries, longer than the context.     *)

ContextMessages == {"hello", "bill Jane"}

ContextItems ==
    {IntentItem(m, Str(<<"CREATE_INVOICE">>), 0) : m \in ContextMessages}
    \cup {ConversationItem(m, <<"hi">>, 0) : m \in ContextMessages}

HistoryRoom == Len(MapGet(conversationMemory, CapKey)) < MaxHistory

NextContext ==
    \/ \E item \in ContextItems :
          HistoryRoom /\ AddToConversationMemory(CapUser, CapConv, item) /\ CapFrame
    \/ HistoryRoom /\ SetPendingExtractedData(CapUser, CapConv, "d1") /\ CapFrame

SpecContext == Init /\ [][NextContext]_vars

(* SpecAppend: only appends to one key, starting from the empty history.   *)

AppendEntry ==
    /\ Len(appended) < MaxAppends
    /\ LET item == ConversationItem("hello", <<"hi">>, now)
       IN  /\ conversationMemory' =
                  addToConversationMemory(conversationMemory, CapUser, CapConv, item)
           /\ appended' = Append(appended, item)
    /\ UNCHANGED <<now, callLog>>

NextAppend ==
    \/ Tick /\ StoreFrame
    \/ AppendEntry /\ StoreFrame

SpecAppend == Init /\ [][NextAppend]_vars

(* SpecIntent: the startup test interleaved with calls of detectIntent and *)
(* generateConversationalResponse.                                         *)

IntentFrame == UNCHANGED <<chatVars, extractVars>>

NextIntent ==
    \/ StartupSucceeds /\ IntentFrame
    \/ StartupFails /\ IntentFrame
    \/ \E r \in Requests, m \in IntentMessages, u \in Users, c \in Convs :
          CallDetectIntent(r, m, u, c) /\ IntentFrame
    \/ \E r \in Requests, e \in ModelErrors : IntentModelFails(r, e) /\ IntentFrame
    \/ \E r \in Requests, response \in IntentReplies :
          IntentModelReplies(r, response) /\ IntentFrame
    \/ \E r \in Requests, m \in IntentMessages, u \in Users, c \in Convs :
          CallConversation(r, m, u, c) /\ IntentFrame
    \/ \E r \in Requests, response \in ConversationReplies :
          ConversationModelReplies(r, response) /\ IntentFrame
    \/ \E r \in Requests, e \in ModelErrors : ConversationModelFails(r, e) /\ IntentFrame

SpecIntent == Init /\ [][NextIntent]_vars

(* SpecChat: calls of processMessage against the in-memory backend.        *)

ChatFrame == UNCHANGED <<memVars, intentVars, extractVars>>

NextChat ==
    \/ \E q \in ChatRequests, m \in ChatMessages, u \in ChatUsers :
          ChatCall(q, m, u) /\ ChatFrame
    \/ \E q \in ChatRequests, c \in ChatCompletions : ChatIntentReplies(q, c) /\ ChatFrame
    \/ \E q \in ChatRequests, c \in InquiryCompletions :
          ChatInquiryReplies(q, c) /\ ChatFrame
    \/ \E q \in ChatRequests : ChatReturn(q) /\ ChatFrame

SpecChat == Init /\ [][NextChat]_vars

(* SpecExtract: the amount pattern on every text over a small alphabet.    *)

ExtractFrame == UNCHANGED <<memVars, intentVars, chatVars>>

NextExtract ==
    \/ \E ch \in TextAlphabet : TypeChar(ch) /\ ExtractFrame
    \/ ExtractAmount /\ ExtractFrame

SpecExtract == Init /\ [][NextExtract]_vars

(* SpecJson: extractValidJson on every reply written from a few parts.     *)

NextJson ==
    \/ \E part \in ReplyParts : TypePart(part) /\ ExtractFrame
    \/ ExtractJson /\ ExtractFrame

SpecJson == Init /\ [][NextJson]_vars

-----------------------------------------------------------------------------
(* C1: every finished call of detectIntent has resolved, whatever the model *)
(* call did and whatever the availability flag was, to a result that        *)
(* carries intent, confidence and entities.                                 *)
IsIntentResult(v) ==
    /\ v.t = "obj"
    /\ {"intent", "confidence", "entities"} \subseteq DOMAIN v.o

C1_DetectIntentAlwaysResolves ==
    \A r \in Requests :
        (req[r].fn = "detectIntent" /\ req[r].pc = "done") =>
            /\ req[r].result.kind = "resolved"
            /\ IsIntentResult(req[r].result.value)

(* C7: once modelConnectionWorking is false no later step sets it back to  *)
(* true or null, and a call started while it is false skips the model.     *)
C7_FlagMonotonic ==
    [][/\ modelConnectionWorking = "false" => modelConnectionWorking' = "false"
       /\ \A r \in Requests :
             (req'[r].pc # "idle" /\ req'[r].flagAtCall = "false") =>
                 ~req'[r].invokedModel]_vars

(* C8: when the startup connection test has failed the model is marked     *)
(* unavailable, and a detectIntent call made after the failure does not    *)
(* invoke the model.                                                       *)
C8_StartupFailureMarksUnavailable ==
    /\ startup = "rejected" => ~isModelAvailable
    /\ \A r \in Requests :
          (req[r].fn = "detectIntent" /\ req[r].startupAtCall = "rejected") =>
              ~req[r].invokedModel

-----------------------------------------------------------------------------
(* C3: in every reachable state every key holds at most 20 entries.        *)
C3_AtMostCapEntries ==
    \A k \in StoredKeys : Len(conversationMemory[k]) <= MemoryCap

(* C4: in every reachable state every key holds at most one entry of type  *)
(* pending_extracted_data.                                                 *)
C4_AtMostOnePending ==
    \A k \in StoredKeys : PendingCount(conversationMemory[k]) <= 1

C4_Witness ==
    \E k \in StoredKeys :
        /\ PendingCount(conversationMemory[k]) = 1
        /\ Len(conversationMemory[k]) >= 2
        /\ IsPending(conversationMemory[k][Len(conversationMemory[k])])
        /\ conversationMemory[k][Len(conversationMemory[k])].data = "d2"
        /\ \E i, j \in 1..Len(callLog) :
              /\ i < j
              /\ callLog[i].op = "setPending" /\ callLog[j].op = "setPending"
              /\ MemKey(callLog[i].userId, callLog[i].conversationId) = k
              /\ MemKey(callLog[j].userId, callLog[j].conversationId) = k
        /\ Len(callLog) >= 3

(* C6: right after setPendingExtractedData(u, c, d) the key holds exactly   *)
(* one pending record and getPendingExtractedData returns d, also when a   *)
(* pending record was there before; right after clearPendingExtractedData  *)
(* getPendingExtractedData returns null and the non-pending entries of the *)
(* key are the same, in the same order, as before the call.                *)
NonPendingEntries(memory) ==
    SelectSeq(memory, LAMBDA e : e.type \in {"conversation", "intent_detection"})

LastCall == callLog[Len(callLog)]

C6_AfterCall ==
    LET call == LastCall'
        key == MemKey(call.userId, call.conversationId)
        before == MapGet(conversationMemory, key)
        after == MapGet(conversationMemory', key)
    IN  /\ call.op = "setPending" =>
              /\ PendingCount(after) = 1
              /\ getPendingExtractedData(conversationMemory', call.userId,
                                         call.conversationId) = call.arg
        /\ call.op = "clearPending" =>
              /\ getPendingExtractedData(conversationMemory', call.userId,
                                         call.conversationId) = NullData
              /\ NonPendingEntries(after) = NonPendingEntries(before)
              /\ Len(after) = Len(NonPendingEntries(before))

C6_PendingSingleton == [][callLog' # callLog => C6_AfterCall]_vars

C6_Witness ==
    /\ Len(callLog) = 4
    /\ \A i \in 1..4 : callLog[i].userId = "u1"
    /\ callLog[1].op = "add"
    /\ callLog[2].op = "setPending" /\ callLog[2].arg = "d1"
    /\ callLog[3].op = "setPending" /\ callLog[3].arg = "d2"
    /\ callLog[4].op = "clearPending"
    /\ Len(conversationMemory["u1-default"]) = 1

(* C5: after N appends to an empty history the key holds the last          *)
(* min(N, 20) appended entries in their original order.                    *)
C5_KeepsLastCap ==
    MapGet(conversationMemory, CapKey) = LastN(appended, MemoryCap)

C5_Witness ==
    /\ Len(appended) > MemoryCap
    /\ Len(MapGet(conversationMemory, CapKey)) = MemoryCap
    /\ appended[1].timestamp # appended[Len(appended)].timestamp

-----------------------------------------------------------------------------
(* C2: every finished call of processMessage has returned a {message, data} *)
(* pair, message a string and data an object or null, whatever the model    *)
(* replied and whatever the backend did; none has raised to its caller.     *)
IsChatResponse(outcome) ==
    /\ outcome.kind = "resolved"
    /\ DOMAIN outcome.value = {"message", "data"}
    /\ DOMAIN outcome.value.message = {"template", "args"}

C2_ProcessMessageNeverRaises ==
    \A q \in ChatRequests : chat[q].pc = "done" => IsChatResponse(chat[q].result)

(* C9: in the merged entities of processMessage each of client, amount,    *)
(* description and date carries the value of the model when the model gave  *)
(* a non-null one, and the regex value only when the model gave none.       *)
EntityFields == {"client", "amount", "description", "date"}

MergedAsClaimed(intent, extractedData, mergedData, f) ==
    IF Prop(Prop(intent, "entities"), f).t \in {"null", "undefined"}
    THEN f \in DOMAIN extractedData => Field(mergedData, f) = extractedData[f]
    ELSE Field(mergedData, f) = Prop(Prop(intent, "entities"), f)

C9_ModelEntitiesTakePrecedence ==
    \A q \in ChatRequests :
        chat[q].pc \in {"done", "awaitInquiry"} /\ ~PropertyThrows(chat[q].intent) =>
            \A f \in EntityFields :
                MergedAsClaimed(chat[q].intent, chat[q].extractedData,
                                chat[q].mergedData, f)

(* C10: a CREATE_INVOICE request whose merged entities lack a client or an  *)
(* amount is answered with the clarifying message and data null, and leaves *)
(* the stored invoices and the invoice counter as they were.                *)
LacksClientOrAmount(c) ==
    /\ ~PropertyThrows(c.intent)
    /\ Prop(c.intent, "intent") = Str(<<"CREATE_INVOICE">>)
    /\ \/ Falsy(Field(c.mergedData, "client"))
       \/ Falsy(Field(c.mergedData, "amount"))

C10_Step ==
    \A q \in ChatRequests :
        chat[q].pc = "awaitIntent" /\ chat'[q].pc = "done" /\ LacksClientOrAmount(chat'[q]) =>
            /\ chat'[q].result = Resolved(Response(NeedInvoiceInfo, Null))
            /\ invoices' = invoices
            /\ invoiceCounter' = invoiceCounter

C10_MissingFieldsOnlyAsk == [][C10_Step]_vars

C10_Witness ==
    \E q \in ChatRequests :
        /\ chat[q].pc = "done"
        /\ LacksClientOrAmount(chat[q])
        /\ ~Falsy(Field(chat[q].mergedData, "amount"))
        /\ chat[q].result.value.data = Null
        /\ Len(invoices) >= 1
        /\ invoiceCounter = Len(invoices) + 1

-----------------------------------------------------------------------------
(* C11: a CREATE_INVOICE request with a client whose amount does not parse  *)
(* to a positive number (zero, negative, no number) ends with data null     *)
(* without a call of createInvoice.                                         *)
IsCreateInvoice(c) ==
    /\ ~PropertyThrows(c.intent)
    /\ Prop(c.intent, "intent") = Str(<<"CREATE_INVOICE">>)

C11_BadAmountShortCircuits ==
    \A q \in ChatRequests :
        /\ chat[q].pc = "done"
        /\ IsCreateInvoice(chat[q])
        /\ ~Falsy(Field(chat[q].mergedData, "client"))
        /\ ~IsPositive(parseFloat(Field(chat[q].mergedData, "amount")))
        => /\ chat[q].backendCall = NoBackendCall
           /\ chat[q].result.value.data = Null

(* C11, as the code has it: such a request does reach createInvoice, whose  *)
(* schema rejects the amount before anything is stored; the result has data *)
(* null and the invoices and the invoice counter are unchanged.             *)
HasBadAmount(c) ==
    /\ IsCreateInvoice(c)
    /\ ~Falsy(Field(c.mergedData, "client"))
    /\ ~IsPositive(parseFloat(Field(c.mergedData, "amount")))

C11_Step ==
    \A q \in ChatRequests :
        chat[q].pc = "awaitIntent" /\ chat'[q].pc = "done" /\ HasBadAmount(chat'[q]) =>
            /\ chat'[q].result.kind = "resolved"
            /\ chat'[q].result.value.data = Null
            /\ chat'[q].backendCall.fn = "createInvoice" =>
                   chat'[q].backendCall.outcome.kind = "throw"
            /\ invoices' = invoices
            /\ invoiceCounter' = invoiceCounter

C11_BadAmountStoresNothing == [][C11_Step]_vars

C11_Witness ==
    \E q \in ChatRequests :
        /\ chat[q].pc = "done"
        /\ HasBadAmount(chat[q])
        /\ chat[q].backendCall.fn = "createInvoice"
        /\ chat[q].backendCall.input.amount = Num(-500)
        /\ Len(invoices) >= 1

-----------------------------------------------------------------------------
(* C12: a CREATE_INVOICE request with client and amount calls createInvoice; *)
(* when the call returns a record the result carries exactly that record and *)
(* a message embedding the record's id, the client and the amount; when the  *)
(* call throws the result is the apologetic message with data null, and the  *)
(* call of processMessage still returns.                                     *)
HasClientAndAmount(c) ==
    /\ IsCreateInvoice(c)
    /\ ~Falsy(Field(c.mergedData, "client"))
    /\ ~Falsy(Field(c.mergedData, "amount"))

C12_InvoiceOutcomeReported ==
    \A q \in ChatRequests :
        chat[q].pc = "done" /\ HasClientAndAmount(chat[q]) =>
            /\ chat[q].backendCall.fn = "createInvoice"
            /\ chat[q].result.kind = "resolved"
            /\ IF chat[q].backendCall.outcome.kind = "ok"
               THEN /\ chat[q].result.value.data = chat[q].backendCall.outcome.value
                    /\ chat[q].result.value.data = invoices[Len(invoices)]
                    /\ chat[q].result.value.message =
                           Message("Invoice created successfully!",
                                   <<Whole(chat[q].backendCall.outcome.value.id),
                                     Field(chat[q].mergedData, "client"),
                                     Field(chat[q].mergedData, "amount")>>)
               ELSE chat[q].result.value = Response(InvoiceFailed, Null)

C12_Witness ==
    \E q \in ChatRequests :
        /\ chat[q].pc = "done"
        /\ HasClientAndAmount(chat[q])
        /\ chat[q].backendCall.outcome.kind = "ok"
        /\ chat[q].result.value.data.id = 2
        /\ chat[q].result.value.message.args[1] = Whole(2)

-----------------------------------------------------------------------------
(* C13: a RECORD_TRANSACTION request with amount and description calls      *)
(* recordTransaction with type income exactly when the amount it passes is  *)
(* greater than 0 and with type expense otherwise, and the transaction      *)
(* recorded carries that type.                                              *)
IsRecordTransaction(c) ==
    /\ ~PropertyThrows(c.intent)
    /\ Prop(c.intent, "intent") = Str(<<"RECORD_TRANSACTION">>)
    /\ ~Falsy(Field(c.mergedData, "amount"))
    /\ ~Falsy(Field(c.mergedData, "description"))

TypeFollowsSign(call) ==
    /\ call.fn = "recordTransaction"
    /\ call.input.type = "income" <=> IsPositive(call.input.amount)
    /\ call.input.type \in {"income", "expense"}
    /\ call.outcome.kind = "ok" => call.outcome.value.type = call.input.type

C13_TypeFollowsSign ==
    \A q \in ChatRequests :
        chat[q].pc = "done" /\ IsRecordTransaction(chat[q]) =>
            TypeFollowsSign(chat[q].backendCall)

-----------------------------------------------------------------------------
(* C14: a GENERATE_BALANCE_SHEET request needs no entities; when            *)
(* generateBalanceSheet returns a payload the result carries that payload   *)
(* and a message with its totalRevenue, totalExpenses, netIncome and        *)
(* outstandingInvoices; when it throws the result is the apologetic message *)
(* with data null.                                                          *)
IsBalanceSheet(c) ==
    /\ ~PropertyThrows(c.intent)
    /\ Prop(c.intent, "intent") = Str(<<"GENERATE_BALANCE_SHEET">>)

SheetMessage(sheet) ==
    Message("Here's your current balance sheet",
            <<Num(sheet.totalRevenue), Num(sheet.totalExpenses), Num(sheet.netIncome),
              Whole(sheet.outstandingInvoices)>>)

\* The handler on a call of generateBalanceSheet that threw.
SheetFailure ==
    BalanceSheetResponse(Str(<<"u1">>),
        Effect(Throw(Error("Error", {"Failed to generate balance sheet"})), CurrentBackend))

C14_BalanceSheetReported ==
    /\ SheetFailure.response = Response(BalanceSheetFailed, Null)
    /\ SheetFailure.backend = CurrentBackend
    /\ \A q \in ChatRequests :
           chat[q].pc = "done" /\ IsBalanceSheet(chat[q]) =>
               /\ chat[q].backendCall.fn = "generateBalanceSheet"
               /\ chat[q].result.kind = "resolved"
               /\ IF chat[q].backendCall.outcome.kind = "ok"
                  THEN /\ chat[q].result.value.data = chat[q].backendCall.outcome.value
                       /\ chat[q].result.value.message =
                              SheetMessage(chat[q].backendCall.outcome.value)
                  ELSE chat[q].result.value = Response(BalanceSheetFailed, Null)

C14_Witness ==
    \E q \in ChatRequests :
        /\ chat[q].pc = "done"
        /\ IsBalanceSheet(chat[q])
        /\ chat[q].mergedData # EmptyObject
        /\ chat[q].result.value.data.totalInvoices = 1
        /\ chat[q].result.value.data.totalTransactions = 1
        /\ chat[q].result.value.data.netIncome # chat[q].result.value.data.totalRevenue
        /\ chat[q].result.value.data.netIncome # 0

-----------------------------------------------------------------------------
(* C15: every result detectIntent returns has its intent among the four     *)
(* intents and its confidence between 0 and 1, whatever JSON the model      *)
(* replied.                                                                 *)
IntentNames ==
    {Str(<<"CREATE_INVOICE">>), Str(<<"RECORD_TRANSACTION">>),
     Str(<<"GENERATE_BALANCE_SHEET">>), Str(<<"GENERAL_INQUIRY">>)}

IsClosedIntentResult(v) ==
    /\ Prop(v, "intent") \in IntentNames
    /\ Prop(v, "confidence").t = "num"
    /\ Prop(v, "confidence").n \in 0..100

C15_IntentSpaceClosed ==
    \A r \in Requests :
        /\ req[r].fn = "detectIntent"
        /\ req[r].pc = "done"
        /\ req[r].result.kind = "resolved"
        => IsClosedIntentResult(req[r].result.value)

-----------------------------------------------------------------------------
(* C16: when the model call of detectIntent fails, or its reply is no JSON,  *)
(* the intent is chosen by the keywords of the message, first matching set  *)
(* first (invoice, bill, charge: CREATE_INVOICE; transaction, expense,      *)
(* spent, received, paid: RECORD_TRANSACTION; balance, summary, report,     *)
(* overview: GENERATE_BALANCE_SHEET; none: GENERAL_INQUIRY), with           *)
(* confidence 0.5 and no entities.                                          *)
KeywordIntent ==
    "Create an invoice for Jane for $500" :> "CREATE_INVOICE"
    @@ "I spent $50 on coffee on 13/45/2024" :> "RECORD_TRANSACTION"
    @@ "Invoice Jane on 2024-01-15" :> "CREATE_INVOICE"
    @@ "hello" :> "GENERAL_INQUIRY"

FailedCompletions == {CompletionError, Completion(Invalid)}

C16_Step ==
    \A q \in ChatRequests, c \in FailedCompletions :
        ChatIntentReplies(q, c) =>
            chat'[q].intent =
                Obj("intent" :> Str(<<KeywordIntent[chat[q].message.text]>>)
                    @@ "confidence" :> Num(50) @@ "entities" :> Obj(EmptyObject))

C16_FallbackByKeywords == [][C16_Step]_vars

-----------------------------------------------------------------------------
(* The dollar-amount token of a text, as the specification describes it:   *)
(* '$', then a number written plainly or with thousands separators, then   *)
(* an optional fraction of two digits.                                     *)

DollarTokenAt(s, i) == CharAt(s, i) = "$" /\ DigitRun(s, i + 1) > 0

HasDollarToken(s) == \E i \in 1..Len(s) : DollarTokenAt(s, i)

FirstDollarToken(s) == Min({i \in 1..Len(s) : DollarTokenAt(s, i)})

TokenIntegerLen(s, d, run) ==
    IF run <= 3 THEN run + CommaGroupsLen(s, d + run) ELSE run

TokenAfterInteger(s, d, int) == int + FractionLen(s, d + int)

TokenNumeralLen(s, d) == TokenAfterInteger(s, d, TokenIntegerLen(s, d, DigitRun(s, d)))

TokenNumeralFrom(s, d) == SubSeq(s, d, d + TokenNumeralLen(s, d) - 1)

TokenNumeral(s) == TokenNumeralFrom(s, FirstDollarToken(s) + 1)

\* C17: whenever the text given to extractFinancialData contains a dollar
\* token, the amount returned is the numeral of that token with '$' and ','
\* removed, also for "$1500" and for a text where a number comes first.
C17_AmountIsDollarNumeral ==
    (extracted # NotExtracted /\ HasDollarToken(typed))
        => extracted = Str(StripDollarsAndCommas(TokenNumeral(typed)))

-----------------------------------------------------------------------------
\* What a caller observes for one (userId, conversationId) pair.
Observed(map, userId, conversationId) ==
    [history |-> MapGet(map, MemKey(userId, conversationId)),
     context |-> getConversationContext(map, userId, conversationId),
     pending |-> getPendingExtractedData(map, userId, conversationId)]

OtherPairs(call) ==
    {pair \in KeyUsers \X KeyConvs : pair # <<call.userId, call.conversationId>>}

C18_AfterCall(call) ==
    \A pair \in OtherPairs(call) :
        Observed(conversationMemory', pair[1], pair[2])
            = Observed(conversationMemory, pair[1], pair[2])

\* C18: a store operation performed for one (userId, conversationId) pair
\* changes neither the history, nor the context, nor the pending record
\* observed for any different pair, also for identifiers containing '-'.
C18_PairsIndependent ==
    [][callLog' # callLog => C18_AfterCall(callLog'[Len(callLog')])]_vars

-----------------------------------------------------------------------------
\* The intent of the call is readable and is none of the three action intents.
IsOtherIntent(c) ==
    /\ ~PropertyThrows(c.intent)
    /\ Prop(c.intent, "intent") # Str(<<"CREATE_INVOICE">>)
    /\ Prop(c.intent, "intent") # Str(<<"RECORD_TRANSACTION">>)
    /\ Prop(c.intent, "intent") # Str(<<"GENERATE_BALANCE_SHEET">>)

C19_Delegates(q) ==
    (chat[q].pc = "awaitIntent" /\ chat'[q].pc # "awaitIntent" /\ IsOtherIntent(chat'[q]))
        => /\ chat'[q].pc = "awaitInquiry"
           /\ chat'[q].backendCall = NoBackendCall
           /\ UNCHANGED backendVars

C19_Answers(q) ==
    (chat[q].pc = "awaitInquiry" /\ chat'[q].pc # "awaitInquiry")
        => /\ chat'[q].pc = "done"
           /\ chat'[q].result.kind = "resolved"
           /\ chat'[q].result.value.data = Null
           /\ chat'[q].backendCall = NoBackendCall
           /\ UNCHANGED backendVars

C19_FailureIsCanned(q) ==
    ChatInquiryReplies(q, CompletionError)
        => chat'[q].result = Resolved(Response(CannedHelp, Null))

\* C19: for GENERAL_INQUIRY and for every intent value other than the three
\* action intents, processMessage delegates to handleGeneralInquiry, which
\* returns data null, calls no backend operation (invoices, transactions and
\* both counters unchanged) and, when its model call fails, returns the
\* canned capabilities message.
C19_OtherIntentsOnlyConverse ==
    [][\A q \in ChatRequests :
           C19_Delegates(q) /\ C19_Answers(q) /\ C19_FailureIsCanned(q)]_vars

\* An intent outside the closed set was answered with the canned message
\* while the backend held records.
C19_Witness ==
    \E q \in ChatRequests :
        /\ chat[q].pc = "done"
        /\ IsOtherIntent(chat[q])
        /\ Prop(chat[q].intent, "intent") = Str(<<"DELETE_ALL">>)
        /\ chat[q].result = Resolved(Response(CannedHelp, Null))
        /\ Len(invoices) >= 1
        /\ Len(transactions) >= 1

-----------------------------------------------------------------------------
\* C20: when the model replied, whatever the reply says and whether or not
\* it parses and has the required fields, detectIntent leaves the
\* model-unavailable flag as it was; only a failed model call sets it.
C20_Replied(r) ==
    /\ req[r].fn = "detectIntent"
    /\ req[r].pc = "awaitModel"
    /\ req'[r].pc = "done"
    /\ req'[r].modelOutcome = "replied"

C20_ReplyNeverMarksUnavailable ==
    [][\A r \in Requests : C20_Replied(r) => UNCHANGED modelConnectionWorking]_vars

-----------------------------------------------------------------------------
\* C21: a reply that parses to an object carrying intent, confidence and
\* entities, a confidence of exactly 0 included, is what detectIntent
\* returns; only a reply lacking one of the three is treated as a failure.
C21_CompleteReplyReturned ==
    [][\A r \in Requests, response \in IntentReplies :
           (/\ WholeTextIsJson(response)
            /\ IsIntentResult(response.body)
            /\ IntentModelReplies(r, response))
               => req'[r].result = Resolved(response.body)]_vars

-----------------------------------------------------------------------------
\* A call of detectIntent ends in this step.
C22_Ends(r) ==
    /\ req'[r].fn = "detectIntent"
    /\ req[r].pc # "done"
    /\ req'[r].pc = "done"

C22_Entry(c) ==
    [type |-> "intent_detection", message |-> c.message,
     intent |-> Prop(c.result.value, "intent"), timestamp |-> now]

C22_OneEntryAdded(c) ==
    /\ MapGet(conversationMemory', MemKey(c.userId, c.conversationId))
           = Append(MapGet(conversationMemory, MemKey(c.userId, c.conversationId)),
                    C22_Entry(c))
    /\ \A k \in (DOMAIN conversationMemory) \ {MemKey(c.userId, c.conversationId)} :
           MapGet(conversationMemory', k) = conversationMemory[k]
    /\ DOMAIN conversationMemory' =
           DOMAIN conversationMemory \cup {MemKey(c.userId, c.conversationId)}

\* C22: a call of detectIntent that returns the parsed reply has appended
\* exactly one intent_detection entry (message, intent, timestamp) to the
\* history of its key and changed no other key; a call that ends in the
\* fallback (flag already false, model error, parse failure, invalid
\* structure) leaves the memory store unchanged.
C22_MemoryWrittenOnSuccessOnly ==
    [][\A r \in Requests :
           C22_Ends(r) =>
               IF req'[r].result.kind = "resolved"
               THEN C22_OneEntryAdded(req'[r])
               ELSE UNCHANGED conversationMemory]_vars

\* One call returned a parsed reply and another, for the same key, ended in
\* the fallback after the model had replied: the history holds one entry.
C22_Witness ==
    \E r1, r2 \in Requests :
        /\ req[r1].pc = "done" /\ req[r1].fn = "detectIntent"
        /\ req[r1].result.kind = "resolved"
        /\ Len(MapGet(conversationMemory, MemKey(req[r1].userId, req[r1].conversationId))) = 1
        /\ req[r2].pc = "done" /\ req[r2].fn = "detectIntent"
        /\ req[r2].result.kind = "rejected"
        /\ req[r2].modelOutcome = "replied"
        /\ req[r2].userId = req[r1].userId

-----------------------------------------------------------------------------
\* The reply is prose before and/or after one JSON object that passes the
\* structure check.
C23_ProseAroundObject(response) ==
    /\ response.before \/ response.after
    /\ response.body # Invalid
    /\ ValidateStructure(response.body).kind = "ok"

\* C23: when the reply is prose around one correct JSON object, detectIntent
\* recovers the object and returns it instead of falling back.
C23_ObjectRecoveredFromProse ==
    [][\A r \in Requests, response \in IntentReplies :
           (C23_ProseAroundObject(response) /\ IntentModelReplies(r, response))
               => req'[r].result = Resolved(response.body)]_vars

-----------------------------------------------------------------------------
(* The scan of extractValidJson as the specification describes it, stated   *)
(* position by position on the text from its first '{' at position f.       *)

ReplyText == Flatten(typed)

HasBrace(s) == \E i \in 1..Len(s) : s[i] = "{"

FirstBrace(s) == CHOOSE i \in 1..Len(s) : s[i] = "{" /\ \A j \in 1..(i - 1) : s[j] # "{"

\* The character at i follows a backslash that is itself not skipped.
RECURSIVE Skipped(_, _, _)
Skipped(s, f, i) == i > f /\ s[i - 1] = Backslash /\ ~Skipped(s, f, i - 1)

Unescaped(s, f, i, ch) == s[i] = ch /\ ~Skipped(s, f, i)

\* The scan is inside a string at i: an odd number of unescaped quotes precede.
InsideString(s, f, i) ==
    Cardinality({j \in f..(i - 1) : Unescaped(s, f, j, Quote)}) % 2 = 1

BracesUpTo(s, f, i, ch) ==
    Cardinality({j \in f..i : Unescaped(s, f, j, ch) /\ ~InsideString(s, f, j)})

DepthAfter(s, f, i) == BracesUpTo(s, f, i, "{") - BracesUpTo(s, f, i, "}")

ReturnsToZero(s, f) == \E i \in f..Len(s) : DepthAfter(s, f, i) = 0

FirstZero(s, f) == Min({i \in f..Len(s) : DepthAfter(s, f, i) = 0})

BalancedPart(s, f) == SubSeq(s, f, FirstZero(s, f))

Scanned(s) == extracted # NotExtracted /\ JsonParse(s).kind # "ok"

\* C24: when the whole text does not parse, extractValidJson returns the
\* parse of the text from the first '{' to the first position where the
\* depth, counted on unescaped braces outside strings only, is back at zero.
C24_ReturnsFirstBalancedObject ==
    (/\ Scanned(ReplyText)
     /\ HasBrace(ReplyText)
     /\ ReturnsToZero(ReplyText, FirstBrace(ReplyText))
     /\ JsonParse(BalancedPart(ReplyText, FirstBrace(ReplyText))).kind = "ok")
        => extracted = JsonParse(BalancedPart(ReplyText, FirstBrace(ReplyText))).value

\* noise {"a":"}\"{"} : the braces and the escaped quote inside the string
\* did not end the object.
C24_Witness ==
    /\ ReplyText = <<"a", "{", Quote, "a", Quote, ":",
                     Quote, "}", Backslash, Quote, "{", Quote, "}">>
    /\ extracted = Obj(<<"a">> :> Str(<<"}", Quote, "{">>))

-----------------------------------------------------------------------------
\* if (!extractedData) throw new Error('Gemini did not return valid JSON...')
ExtractionFails(extractedData) == Falsy(extractedData)

C25_NothingToReturn(s) ==
    \/ ~HasBrace(s)
    \/ ~ReturnsToZero(s, FirstBrace(s))
    \/ JsonParse(BalancedPart(s, FirstBrace(s))).kind # "ok"

-----------------------------------------------------------------------------
CapHistory == MapGet(conversationMemory, CapKey)

CapContext == getConversationContext(conversationMemory, CapUser, CapConv)

\* The rendering the specification gives for the two kinds of entries.
C26_Rendered(item, line) ==
    /\ item.type = "conversation"
           => line = <<"User: ", item.userMessage, "\nBot: ", item.botResponse>>
    /\ item.type = "intent_detection"
           => line = <<"User intent: ", item.intent, " for message: \"", item.message, "\"">>

C26_LastFive(history, context) ==
    /\ Len(context) = Min({5, Len(history)})
    /\ \A k \in 1..Len(context) :
           C26_Rendered(history[Len(history) - Len(context) + k], context[k])

\* C26: the context of a key is made of its last 5 entries only, in stored
\* order with the most recent last, one rendered item per entry in the form
\* given for its type; older entries do not appear.
C26_ContextIsLastFive == C26_LastFive(CapHistory, CapContext)

\* A history of more than 5 entries whose last five hold both kinds and whose
\* oldest entry is rendered nowhere in the context.
C26_Witness ==
    /\ Len(CapHistory) > 5
    /\ \E k \in 1..5 : CapHistory[Len(CapHistory) - 5 + k].type = "conversation"
    /\ \E k \in 1..5 : CapHistory[Len(CapHistory) - 5 + k].type = "intent_detection"
    /\ CapHistory[1].type = "conversation"
    /\ \A k \in 1..Len(CapContext) :
           CapContext[k] # <<"User: ", CapHistory[1].userMessage, "\nBot: ", CapHistory[1].botResponse>>

-----------------------------------------------------------------------------
\* processMessage has run the extractor on a message whose first date-shaped
\* token is no calendar date.
C27_UnparsableDate(c) ==
    /\ c.pc \in {"awaitInquiry", "done"}
    /\ ~PropertyThrows(c.intent)
    /\ c.message.dates # <<>>
    /\ ~IsValidDateText(Head(c.message.dates))

\* C27: when the first date-shaped token of the message is no calendar date,
\* the result of extractFinancialData has no date field at all, so the
\* merged data keep the date the model supplied.
C27_UnparsableDateOmitted ==
    \A q \in ChatRequests :
        C27_UnparsableDate(chat[q]) =>
            /\ "date" \notin DOMAIN chat[q].extractedData
            /\ Field(chat[q].mergedData, "date") = Prop(Prop(chat[q].intent, "entities"), "date")

-----------------------------------------------------------------------------
CapPending == getPendingExtractedData(conversationMemory, CapUser, CapConv)

\* C28: a pending record set for a key stays what getPendingExtractedData
\* returns for it across any number of addToConversationMemory calls for
\* that key: only clearPendingExtractedData, clearConversationMemory or
\* another setPendingExtractedData changes it.
C28_PendingSurvivesAppends ==
    [][AddToConversationMemory(CapUser, CapConv, ConversationItem("hello", <<"hi">>, now))
           => getPendingExtractedData(conversationMemory', CapUser, CapConv) = CapPending]_vars

-----------------------------------------------------------------------------
\* The decimal digits of n, zero-padded to four places.
C29_FourDigits(n) ==
    <<DigitChar[((n \div 1000) % 10) + 1], DigitChar[((n \div 100) % 10) + 1],
      DigitChar[((n \div 10) % 10) + 1], DigitChar[(n % 10) + 1]>>

C29_IdsAreDense ==
    /\ invoiceCounter = Len(invoices) + 1
    /\ \A i \in 1..Len(invoices) :
           /\ invoices[i].id = i
           /\ invoices[i].invoice_number = <<"INV-">> \o C29_FourDigits(i)

C29_FailedCall(q) ==
    /\ chat[q].pc = "awaitIntent"
    /\ chat'[q].pc = "done"
    /\ chat'[q].backendCall.fn = "createInvoice"
    /\ chat'[q].backendCall.outcome.kind = "throw"

\* C29: the stored invoices have the ids 1..n in creation order, each with
\* the invoice_number INV- and its id zero-padded to 4 digits, and a call of
\* createInvoice that fails leaves the list and invoiceCounter unchanged.
C29_InvoiceIdsDense ==
    /\ []C29_IdsAreDense
    /\ [][\A q \in ChatRequests :
              C29_FailedCall(q) => UNCHANGED <<invoices, invoiceCounter>>]_vars

\* A call of createInvoice has failed validation after an invoice was stored.
C29_Witness ==
    \E q \in ChatRequests :
        /\ chat[q].pc = "done"
        /\ chat[q].backendCall.fn = "createInvoice"
        /\ chat[q].backendCall.outcome.kind = "throw"
        /\ Len(invoices) = 1
        /\ invoices[1].invoice_number = <<"INV-", "0", "0", "0", "1">>
        /\ invoiceCounter = 2

-----------------------------------------------------------------------------
\* The sum of the amounts of the records at the positions in S.
RECURSIVE C30_Sum(_, _)
C30_Sum(records, S) ==
    IF S = {} THEN 0
    ELSE records[Min(S)].amount.n + C30_Sum(records, S \ {Min(S)})

C30_Abs(n) == IF n < 0 THEN 0 - n ELSE n

\* The sum of their absolute amounts.
RECURSIVE C30_AbsSum(_, _)
C30_AbsSum(records, S) ==
    IF S = {} THEN 0
    ELSE C30_Abs(records[Min(S)].amount.n) + C30_AbsSum(records, S \ {Min(S)})

C30_Invoices(u) == {i \in 1..Len(invoices) : invoices[i].user_id = u}

C30_Pending(u) == {i \in C30_Invoices(u) : invoices[i].status = "pending"}

C30_Transactions(u, type) ==
    {i \in 1..Len(transactions) :
        transactions[i].user_id = u /\ transactions[i].type = type}

C30_SheetOf(u, effect) ==
    /\ effect.backend = CurrentBackend
    /\ effect.outcome.kind = "ok"
    /\ effect.outcome.value.totalRevenue =
           C30_Sum(invoices, C30_Invoices(u))
               + C30_Sum(transactions, C30_Transactions(u, "income"))
    /\ effect.outcome.value.totalExpenses =
           C30_AbsSum(transactions, C30_Transactions(u, "expense"))
    /\ effect.outcome.value.netIncome =
           effect.outcome.value.totalRevenue - effect.outcome.value.totalExpenses
    /\ effect.outcome.value.outstandingInvoices = Cardinality(C30_Pending(u))

\* C30: in every state of the backend and for every user, generateBalanceSheet
\* returns totalRevenue = that user's invoice amounts plus income
\* transactions, totalExpenses = the absolute amounts of that user's expense
\* transactions, netIncome = their difference and outstandingInvoices = the
\* number of that user's pending invoices; records of other users do not
\* count, and the call changes no stored record.
C30_BalanceSheetPerUser ==
    \A u \in ChatUsers : C30_SheetOf(u, generateBalanceSheet(u, CurrentBackend))

\* Two users with records of their own: an invoice and an expense of one, an
\* invoice of the other.
C30_Witness ==
    \E u1, u2 \in ChatUsers :
        /\ u1 # u2
        /\ C30_Invoices(u1) # {}
        /\ \E i \in C30_Transactions(u1, "expense") : transactions[i].amount.n < 0
        /\ C30_Invoices(u2) # {}
        /\ generateBalanceSheet(u1, CurrentBackend).outcome.value.netIncome
               # generateBalanceSheet(u2, CurrentBackend).outcome.value.netIncome

====
